---- MODULE Spec2Model ----
(***************************************************************************)
(* A model of ctapipe's HDF5 table I/O: HDF5TableWriter and                *)
(* HDF5TableReader of ctapipe/io/hdf5tableio.py.                           *)
(*                                                                         *)
(* Text (table names, column names, attribute keys, str values) is a       *)
(* sequence of one-character strings, so that startswith, endswith,        *)
(* split, stem and slicing are computed as Python computes them.           *)
(* A Python value is a record [k, n, u, a]: k the type name, n a number,   *)
(* u a name (unit, enum class, time scale, dtype) and a an array or text.  *)
(***************************************************************************)
EXTENDS Integers, Sequences, FiniteSets, TLC

\* ------------------------------------------------------------------ bounds

\* number of write calls made to the file
MaxWrites == 2
\* number of generators one reader hands out
MaxReads == 1
\* number of writers that open the file, one after the other
MaxOpens == 2
\* number of generators of the reader whose steps interleave
MaxSequences == 2
\* number of rows of a table of telescope events
MaxTelRows == 2
\* number of array events the rows of a table of telescope events belong to
MaxArrayEvents == 2
\* number of image parameters in the configuration of a FeatureAggregator
MaxParameters == 2

\* ------------------------------------------------------------------ text

StartsWith(s, p) == Len(s) >= Len(p) /\ SubSeq(s, 1, Len(p)) = p

EndsWith(s, p) == Len(s) >= Len(p) /\ SubSeq(s, Len(s) - Len(p) + 1, Len(s)) = p

\* the positions at which sub occurs in s
Occurrences(s, sub) ==
    {i \in 1..(Len(s) - Len(sub) + 1) : s[i] = sub[1] /\ SubSeq(s, i, i + Len(sub) - 1) = sub}

Min(S) == CHOOSE m \in S : \A o \in S : m <= o

Max(S) == CHOOSE m \in S : \A o \in S : m >= o

\* s.split(sep)[0]
SplitHead(s, sep) ==
    LET occ == Occurrences(s, sep) IN IF occ = {} THEN s ELSE SubSeq(s, 1, Min(occ) - 1)

\* s.rpartition(sep)[0]
RPartitionHead(s, sep) ==
    LET occ == Occurrences(s, sep) IN IF occ = {} THEN <<>> ELSE SubSeq(s, 1, Max(occ) - 1)

\* s[:-k]
DropLast(s, k) == IF Len(s) <= k THEN <<>> ELSE SubSeq(s, 1, Len(s) - k)

\* s[k:]
DropFirst(s, k) == IF Len(s) <= k THEN <<>> ELSE SubSeq(s, k + 1, Len(s))

U_ == <<"_">>

S_DESC == <<"_", "D", "E", "S", "C">>
S_ENUM == <<"_", "E", "N", "U", "M">>
S_UNIT == <<"_", "U", "N", "I", "T">>
S_MAXLEN == <<"_", "M", "A", "X", "L", "E", "N">>
S_TRANSFORM == <<"_", "T", "R", "A", "N", "S", "F", "O", "R", "M">>
S_TIME_SCALE == <<"_", "T", "I", "M", "E", "_", "S", "C", "A", "L", "E">>
S_TIME_FORMAT == <<"_", "T", "I", "M", "E", "_", "F", "O", "R", "M", "A", "T">>
S_TRANSFORM_SCALE == S_TRANSFORM \o <<"_", "S", "C", "A", "L", "E">>
S_TRANSFORM_OFFSET == S_TRANSFORM \o <<"_", "O", "F", "F", "S", "E", "T">>
S_TRANSFORM_DTYPE == S_TRANSFORM \o <<"_", "D", "T", "Y", "P", "E">>

K_VERSION == <<"C", "T", "A", "P", "I", "P", "E", "_", "V", "E", "R", "S", "I", "O", "N">>

ALLOWED_SUFFIXES ==
    {S_DESC, S_ENUM, S_TIME_FORMAT, S_TIME_SCALE, S_TRANSFORM, S_TRANSFORM_SCALE, S_UNIT}

\* ---------------------------------------------------------------- values

V(k, n, u, a) == [k |-> k, n |-> n, u |-> u, a |-> a]

PyInt(n) == V("int", n, "", <<>>)
PyNone == V("NoneType", 0, "", <<>>)
PyStr(s) == V("str", 0, "", s)
PyBytes(s) == V("bytes", 0, "", s)
Quantity(n, unit) == V("Quantity", n, unit, <<>>)
EnumMember(cls, code) == V("Enum", code, cls, <<>>)
Time(scale, n) == V("Time", n, scale, <<>>)
NdArray(dtype, data) == V("ndarray", 0, dtype, data)
NpScalar(dtype, n) == V(dtype, n, "", <<>>)
SubContainer == V("Container", 0, "", <<>>)
\* a header attribute holding a name (a unit, a scale, "string", a description)
AttrName(u) == V("str", 0, u, <<>>)

\* the outcome of an evaluation: a value, or the exception it raised
Ok(v) == [exc |-> "", v |-> v]
Raise(e) == [exc |-> e, v |-> PyNone]

\* str.encode("utf-8"): a character is a code point; those below 128 are one
\* byte, the others two
Utf8Char(c) == IF c < 128 THEN <<c>> ELSE <<192 + (c \div 64), 128 + (c % 64)>>

RECURSIVE Utf8Encode(_)
Utf8Encode(s) == IF s = <<>> THEN <<>> ELSE Utf8Char(Head(s)) \o Utf8Encode(Tail(s))

\* bytes.decode("utf-8"): raises on a lead byte whose continuation is missing
RECURSIVE Utf8Decode(_)
Utf8Decode(b) ==
    IF b = <<>> THEN Ok(<<>>)
    ELSE IF Head(b) < 128
         THEN LET r == Utf8Decode(Tail(b))
              IN  IF r.exc # "" THEN r ELSE [exc |-> "", v |-> <<Head(b)>> \o r.v]
    ELSE IF Head(b) >= 192 /\ Len(b) >= 2 /\ b[2] >= 128 /\ b[2] < 192
         THEN LET r == Utf8Decode(Tail(Tail(b)))
              IN  IF r.exc # "" THEN r
                  ELSE [exc |-> "", v |-> <<(Head(b) - 192) * 64 + (b[2] - 128)>> \o r.v]
    ELSE [exc |-> "UnicodeDecodeError", v |-> <<>>]

\* ----------------------------------------------------------------- units

Units == {"GeV", "TeV", "s"}

UnitDimension(u) == IF u = "s" THEN "time" ELSE "energy"

UnitFactor(u) == IF u = "TeV" THEN 1000 ELSE 1

\* Quantity.to_value(unit); the quantities of the model convert to the units
\* of the model without a remainder
ToValue(q, unit) ==
    IF UnitDimension(q.u) # UnitDimension(unit) THEN Raise("UnitConversionError")
    ELSE Ok(NpScalar("float64", (q.n * UnitFactor(q.u)) \div UnitFactor(unit)))

\* ------------------------------------------------------------------ time

\* Time.tai.mjd: TAI runs ahead of UTC by a fixed number of ticks
TaiMjd(t) == IF t.u = "utc" THEN t.n + 37 ELSE t.n

\* Time.<scale>.<format> for the scales of the model
TimeIn(t, scale) == IF scale = "utc" THEN TaiMjd(t) - 37 ELSE TaiMjd(t)

\* ------------------------------------------------------------ transforms
\* The column transforms of ctapipe/io/tableio.py. A transform is a record
\* [kind, u, f, n]: u the unit, enum class or time scale, f the time format,
\* n the maximum length of a string.

NoTransform == [kind |-> "none", u |-> "", f |-> "", n |-> 0, o |-> 0]
QuantityColumnTransform(unit) ==
    [kind |-> "quantity", u |-> unit, f |-> "", n |-> 0, o |-> 0]
EnumColumnTransform(cls) == [kind |-> "enum", u |-> cls, f |-> "", n |-> 0, o |-> 0]
TimeColumnTransform(scale, format) ==
    [kind |-> "time", u |-> scale, f |-> format, n |-> 0, o |-> 0]
StringTransform(maxlen) == [kind |-> "string", u |-> "", f |-> "", n |-> maxlen, o |-> 0]
FixedPointColumnTransform(scale, offset, source_dtype, target_dtype) ==
    [kind |-> "fixedpoint", u |-> source_dtype, f |-> target_dtype, n |-> scale, o |-> offset]

\* a Python or numpy number
IsScalarNumber(v) ==
    v.k \in {"float", "float64", "float32", "float16", "int8", "int16", "int32", "int64",
             "int", "uint8", "uint16", "uint32", "uint64", "bool", "bool_"}

\* the codes of the members of an enum class
EnumCodes(cls) == IF cls = "EventType" THEN {0, 1} ELSE {}

\* transform(value), the direction of the writer
TrCall(tr, v) ==
    CASE tr.kind = "quantity" ->
            IF v.k = "Quantity" THEN ToValue(v, tr.u) ELSE Raise("AttributeError")
      [] tr.kind = "enum" ->
            IF v.k = "Enum" THEN Ok(PyInt(v.n)) ELSE Raise("AttributeError")
      [] tr.kind = "time" ->
            IF v.k = "Time" THEN Ok(NpScalar("float64", TimeIn(v, tr.u)))
            ELSE Raise("AttributeError")
      [] tr.kind = "string" ->
            IF v.k = "str" THEN Ok(PyBytes(Utf8Encode(v.a))) ELSE Raise("TypeError")
      [] tr.kind = "fixedpoint" ->
            IF IsScalarNumber(v) THEN Ok(NpScalar(tr.f, v.n * tr.n + tr.o))
            ELSE IF v.k = "ndarray"
            THEN Ok(NdArray(tr.f, [i \in 1..Len(v.a) |-> v.a[i] * tr.n + tr.o]))
            ELSE IF v.k = "Quantity" THEN Raise("UnitConversionError")
            ELSE Raise("TypeError")
      [] OTHER -> Ok(v)

\* transform.inverse(value), the direction of the reader
TrInverse(tr, v) ==
    CASE tr.kind = "quantity" -> Ok(V("Quantity", v.n, tr.u, v.a))
      [] tr.kind = "enum" ->
            IF v.n \in EnumCodes(tr.u) THEN Ok(EnumMember(tr.u, v.n)) ELSE Raise("ValueError")
      [] tr.kind = "time" -> Ok(Time(tr.u, v.n))
      [] tr.kind = "string" ->
            IF v.k = "bytes"
            THEN LET d == Utf8Decode(v.a)
                 IN  IF d.exc # "" THEN Raise(d.exc) ELSE Ok(PyStr(d.v))
            ELSE Raise("TypeError")
      [] tr.kind = "fixedpoint" ->
            IF v.k = "ndarray"
            THEN Ok(NdArray(tr.u, [i \in 1..Len(v.a) |-> (v.a[i] - tr.o) \div tr.n]))
            ELSE Ok(NpScalar(tr.u, (v.n - tr.o) \div tr.n))
      [] OTHER -> Ok(v)

\* transform.get_meta(colname): the header attributes that describe it
GetMeta(tr, colname) ==
    CASE tr.kind = "quantity" -> (colname \o S_UNIT) :> AttrName(tr.u)
      [] tr.kind = "enum" -> (colname \o S_ENUM) :> AttrName(tr.u)
      [] tr.kind = "time" ->
            ((colname \o S_TIME_SCALE) :> AttrName(tr.u))
            @@ ((colname \o S_TIME_FORMAT) :> AttrName(tr.f))
      [] tr.kind = "string" ->
            ((colname \o S_TRANSFORM) :> AttrName("string"))
            @@ ((colname \o S_MAXLEN) :> PyInt(tr.n))
      [] tr.kind = "fixedpoint" ->
            ((colname \o S_TRANSFORM_SCALE) :> PyInt(tr.n))
            @@ ((colname \o S_TRANSFORM_OFFSET) :> PyInt(tr.o))
            @@ ((colname \o S_TRANSFORM_DTYPE) :> AttrName(tr.u))
      [] OTHER -> [key \in {} |-> PyNone]

\* dict.update: the entries of new replace those of old
Update(old, new) == new @@ old

NoEntries == [key \in {} |-> PyNone]

\* TableWriter._apply_col_transform / TableReader._apply_col_transform on the
\* transforms of one table
HasTransform(trs, col) == col \in DOMAIN trs

\* TableWriter.add_column_transform: one transform per (table, column)
AddColumnTransform(trs, col, tr) == (col :> tr) @@ trs

ApplyColTransform(trs, col, v) ==
    IF HasTransform(trs, col) THEN TrCall(trs[col], v) ELSE Ok(v)

ApplyColTransformInverse(trs, col, v) ==
    IF HasTransform(trs, col) THEN TrInverse(trs[col], v) ELSE Ok(v)

\* ------------------------------------------------------------- containers
\* The record types of the model. A field is [name, unit, max_length,
\* description]; unit "" and max_length 0 stand for "not declared".

Field(name, unit, maxlen) ==
    [name |-> name, unit |-> unit, max_length |-> maxlen, description |-> "d"]

ContainerFields(cls) ==
    CASE cls = "A" -> <<Field(<<"x">>, "", 0), Field(<<"e">>, "GeV", 0), Field(<<"k">>, "", 0)>>
      [] cls = "B" -> <<Field(<<"x">>, "", 0), Field(<<"n">>, "", 3), Field(<<"t">>, "", 0)>>
      [] cls = "C" -> <<Field(<<"i">>, "", 0), Field(<<"j">>, "", 0), Field(<<"l">>, "", 0)>>

DefaultPrefix(cls) ==
    CASE cls = "A" -> <<"a">>
      [] cls = "B" -> <<"b">>
      [] cls = "C" -> <<"c">>

ContainerClasses == {"A", "B", "C"}

FieldNames(cls) == {ContainerFields(cls)[i].name : i \in 1..Len(ContainerFields(cls))}

\* a record instance: its class, its prefix, one value per declared field and
\* its free-form metadata
Container(cls, values, meta) ==
    [cls |-> cls, prefix |-> DefaultPrefix(cls), values |-> values, meta |-> meta]

A1 == Container("A", <<PyInt(1), Quantity(1, "TeV"), EnumMember("EventType", 0)>>, NoEntries)
\* a record with a free-form metadata entry
A2 == Container("A", <<PyInt(2), Quantity(3, "GeV"), EnumMember("EventType", 1)>>,
                <<"r", "u", "n">> :> PyInt(5))
\* an energy given in seconds: not convertible to the declared unit
A3 == Container("A", <<PyInt(1), Quantity(5, "s"), EnumMember("EventType", 0)>>, NoEntries)
B1 == Container("B", <<Quantity(2, "TeV"), PyStr(<<97, 98>>), Time("utc", 10)>>, NoEntries)
\* an array for x, and a two-byte character
B2 == Container("B", <<NdArray("int64", <<5, 6>>), PyStr(<<233>>), Time("tai", 50)>>, NoEntries)
\* a plain number for x, and a name longer than the declared maximum
B3 == Container("B", <<PyInt(7), PyStr(<<97, 233, 99>>), Time("utc", 20)>>, NoEntries)
C1 == Container("C", <<NdArray("int64", <<1, 2>>), PyNone, PyStr(<<97>>)>>, NoEntries)
C2 == Container("C", <<NdArray("int64", <<3, 4>>), SubContainer, PyStr(<<97, 98>>)>>, NoEntries)
\* an array of a dtype that PYTABLES_TYPE_MAP does not list
C3 == Container("C", <<NdArray("complex128", <<1, 2>>), PyNone, PyStr(<<97>>)>>, NoEntries)

\* what a caller passes to write: one record or a sequence of records
WriteInputs ==
    {<<A1>>, <<A2>>, <<A3>>, <<B1>>, <<B2>>, <<B3>>, <<C1>>, <<C2>>, <<C3>>,
     <<A1, B3>>, <<B1, A2>>, <<C1, A1>>}

\* Container.items(add_prefix): the (column name, value) pairs in field order
ColName(container, i, addPrefix) ==
    IF addPrefix /\ container.prefix # <<>>
    THEN container.prefix \o U_ \o ContainerFields(container.cls)[i].name
    ELSE ContainerFields(container.cls)[i].name

Items(container, addPrefix) ==
    [i \in 1..Len(container.values) |->
        [name |-> ColName(container, i, addPrefix), value |-> container.values[i]]]

\* ---------------------------------------------------------- storage engine
\* PyTables, as far as the writer and the reader use it. A column description
\* is [type, shape, pos, itemsize]: shape 0 is a scalar, pos -1 is "no
\* position given". A table is [columns, attrs, rows, title]; the file maps
\* the path of each table to it.

PYTABLES_TYPE_MAP ==
    [typename \in {"float", "float64", "float32", "float16", "int8", "int16", "int32",
                   "int64", "int", "uint8", "uint16", "uint32", "uint64", "bool", "bool_"} |->
        CASE typename \in {"float", "float64"} -> "Float64Col"
          [] typename = "float32" -> "Float32Col"
          [] typename = "float16" -> "Float16Col"
          [] typename = "int8" -> "Int8Col"
          [] typename = "int16" -> "Int16Col"
          [] typename = "int32" -> "Int32Col"
          [] typename \in {"int64", "int"} -> "Int64Col"
          [] typename = "uint8" -> "UInt8Col"
          [] typename = "uint16" -> "UInt16Col"
          [] typename = "uint32" -> "UInt32Col"
          [] typename = "uint64" -> "UInt64Col"
          [] typename \in {"bool", "bool_"} -> "BoolCol"]

Col(type, shape, pos, itemsize) ==
    [type |-> type, shape |-> shape, pos |-> pos, itemsize |-> itemsize]

NoPos == -1

\* the numpy dtype that a column class stores
ColDtype(type) ==
    CASE type = "Float64Col" -> "float64"
      [] type = "Float32Col" -> "float32"
      [] type = "Float16Col" -> "float16"
      [] type = "Int8Col" -> "int8"
      [] type = "Int16Col" -> "int16"
      [] type = "Int32Col" -> "int32"
      [] type = "Int64Col" -> "int64"
      [] type = "UInt8Col" -> "uint8"
      [] type = "UInt16Col" -> "uint16"
      [] type = "UInt32Col" -> "uint32"
      [] type = "UInt64Col" -> "uint64"
      [] type = "BoolCol" -> "bool"
      [] OTHER -> "bytes"

IsNumber(v) == v.k \in DOMAIN PYTABLES_TYPE_MAP

\* the value a fresh row holds in a column
ColDefault(col) ==
    IF col.type = "StringCol" THEN PyBytes(<<>>)
    ELSE IF col.shape = 0 THEN NpScalar(ColDtype(col.type), 0)
    ELSE NdArray(ColDtype(col.type), [i \in 1..col.shape |-> 0])

\* row[colname] = value: the value as the column stores it, or the error
RowAssign(col, v) ==
    IF col.type = "StringCol"
    THEN IF v.k = "bytes"
         THEN Ok(PyBytes(IF Len(v.a) > col.itemsize THEN SubSeq(v.a, 1, col.itemsize) ELSE v.a))
         ELSE IF v.k = "str"
         THEN IF \A i \in 1..Len(v.a) : v.a[i] < 128
              THEN Ok(PyBytes(IF Len(v.a) > col.itemsize THEN SubSeq(v.a, 1, col.itemsize)
                              ELSE v.a))
              ELSE Raise("UnicodeEncodeError")
         ELSE Raise("TypeError")
    ELSE IF col.shape = 0
    THEN IF IsNumber(v) THEN Ok(NpScalar(ColDtype(col.type), v.n)) ELSE Raise("TypeError")
    ELSE IF v.k = "ndarray"
         THEN IF Len(v.a) = col.shape /\ v.u \in DOMAIN PYTABLES_TYPE_MAP
              THEN Ok(NdArray(ColDtype(col.type), v.a))
              ELSE Raise("ValueError")
         ELSE IF IsNumber(v)
         THEN Ok(NdArray(ColDtype(col.type), [i \in 1..col.shape |-> v.n]))
         ELSE Raise("TypeError")

\* ------------------------------------------------------------------ paths

SLASH == <<"/">>
DOT == <<".">>

\* PurePath(group) / PurePath(name)
JoinPath(group, name) ==
    IF StartsWith(name, SLASH) THEN name
    ELSE IF EndsWith(group, SLASH) THEN group \o name
    ELSE group \o SLASH \o name

\* PurePath.parent
PathParent(path) ==
    LET cut == Max(Occurrences(path, SLASH)) IN IF cut = 1 THEN SLASH ELSE SubSeq(path, 1, cut - 1)

\* PurePath.name
PathName(path) == SubSeq(path, Max(Occurrences(path, SLASH)) + 1, Len(path))

\* PurePath.stem: the final component without its last suffix
PathStem(path) ==
    LET name == PathName(path)
        dots == Occurrences(name, DOT)
    IN  IF dots = {} \/ Max(dots) = 1 \/ Max(dots) = Len(name) THEN name
        ELSE SubSeq(name, 1, Max(dots) - 1)

\* ------------------------------------------------------------------ state

VARIABLES
    h5file,         \* the file: path of a table -> [columns, attrs, rows, title]
    add_prefix,     \* the writer's add_prefix option
    w_open,         \* the writer is open
    w_schemas,      \* HDF5TableWriter._schemas: table name -> column descriptions
    w_tables,       \* HDF5TableWriter._tables: table name -> path of the table
    w_transforms,   \* TableWriter._transforms: table name -> column -> transform
    w_exclusions,   \* TableWriter._exclusions: table name -> excluded columns
    w_log,          \* what the last writer call logged at warning level or above
    w_last,         \* the last writer call: [op, name, input, exc]
    w_calls,        \* number of write calls made
    w_opens,        \* number of writers that have opened the file
    written         \* path of a table -> the inputs whose rows it received

wvars == <<h5file, add_prefix, w_open, w_schemas, w_tables, w_transforms, w_exclusions,
           w_log, w_last, w_calls, w_opens, written>>

\* the table names the callers of the model use
T_PLAIN == <<"t">>
T_DOTTED == <<"t", ".", "a">>
T_ROOTED == <<"/", "t">>

TableNames == {T_PLAIN, T_DOTTED, T_ROOTED}

\* the column names an exclusion rule of the model can name
ExcludableColumns == {<<"x">>}

\* HDF5TableWriter._group for group_name=""
WriterGroup == SLASH \o <<>>

LogRec(level, msg, col, cls) == [level |-> level, msg |-> msg, col |-> col, cls |-> cls]

\* a defaultdict read: the entry, or the empty dict
TableEntry(registry, table_name) ==
    IF table_name \in DOMAIN registry THEN registry[table_name] ELSE NoEntries

\* TableWriter._is_column_excluded
Exclusions(table_name) ==
    IF table_name \in DOMAIN w_exclusions THEN w_exclusions[table_name] ELSE {}

IsColumnExcluded(table_name, name) == name \in Exclusions(table_name)

\* exceptions that "except ValueError" catches
IsValueError(exc) == exc \in {"ValueError", "UnitConversionError", "UnicodeDecodeError",
                              "UnicodeEncodeError"}

\* ------------------------------------------------- writer: schema building
\* The schema under construction is b = [columns, meta, tr, log, exc, v]: the
\* Schema class, the meta dict, self._transforms[table_name], the log, the
\* exception in flight ("" for none) and the value of the field at hand as
\* converted so far; reg lists the calls of add_column_transform that
\* _add_column_to_schema made (lines 180, 186, 198, 208), as [col, kind].
\* Every step leaves b alone when an exception is in flight.

NewBuild(table_name) ==
    [columns |-> NoEntries, meta |-> NoEntries, tr |-> TableEntry(w_transforms, table_name),
     log |-> <<>>, exc |-> "", v |-> PyNone, reg |-> <<>>]

\* line 173: value = self._apply_col_transform(table_name, name, value)
UserTransform(b, name, value, r) ==
    IF r.exc # "" THEN [b EXCEPT !.exc = r.exc] ELSE [b EXCEPT !.v = r.v]

\* lines 177-180: an enum member becomes its code; the transform is registered
EnumStep(b, name) ==
    IF b.exc # "" \/ b.v.k # "Enum" THEN b
    ELSE [b EXCEPT !.v = TrCall(EnumColumnTransform(b.v.u), b.v).v,
                   !.tr = AddColumnTransform(@, name, EnumColumnTransform(b.v.u)),
                   !.reg = Append(@, [col |-> name, kind |-> "enum"])]

\* the unit of the value, whatever the field declares
SchemaUnitOfValue(field, value) == value.u

\* line 183: unit = field.unit or value.unit
SchemaUnit(field, value) == IF field.unit # "" THEN field.unit ELSE value.u

\* lines 182-186: a quantity becomes its number in the unit; the transform is
\* registered once it has converted the value
QuantityConverted(b, name, unit, r) ==
    IF r.exc # "" THEN [b EXCEPT !.exc = r.exc]
    ELSE [b EXCEPT !.v = r.v, !.tr = AddColumnTransform(@, name, QuantityColumnTransform(unit)),
                   !.reg = Append(@, [col |-> name, kind |-> "quantity"])]

QuantityStep(b, field, name) ==
    IF b.exc # "" \/ b.v.k # "Quantity" THEN b
    ELSE QuantityConverted(b, name, SchemaUnit(field, b.v),
                           TrCall(QuantityColumnTransform(SchemaUnit(field, b.v)), b.v))

\* line 206: max_length = field.max_length or len(value.encode("utf-8"))
SchemaMaxLength(field, value) ==
    IF field.max_length # 0 THEN field.max_length ELSE Len(Utf8Encode(value.a))

\* a column builder that takes every plain number for a time stamp
AddTypedColumnNumbersAsTime(b, pos, field, name) ==
    IF b.exc # "" THEN b
    ELSE IF b.v.k = "ndarray"
    THEN IF b.v.u \in DOMAIN PYTABLES_TYPE_MAP
         THEN [b EXCEPT !.columns =
                  Update(@, name :> Col(PYTABLES_TYPE_MAP[b.v.u], Len(b.v.a), pos, 0))]
         ELSE [b EXCEPT !.exc = "KeyError"]
    ELSE IF b.v.k = "Time" \/ b.v.k \in DOMAIN PYTABLES_TYPE_MAP
    THEN [b EXCEPT !.columns = Update(@, name :> Col("Float64Col", 0, pos, 0)),
                   !.tr = AddColumnTransform(@, name, TimeColumnTransform("tai", "mjd")),
                   !.reg = Append(@, [col |-> name, kind |-> "time"])]
    ELSE IF b.v.k = "str"
    THEN [b EXCEPT !.tr = AddColumnTransform(@, name,
                                             StringTransform(SchemaMaxLength(field, b.v))),
                   !.reg = Append(@, [col |-> name, kind |-> "string"]),
                   !.columns = Update(@, name :> Col("StringCol", 0, NoPos,
                                                     SchemaMaxLength(field, b.v)))]
    ELSE [b EXCEPT !.exc = "ValueError"]

\* lines 188-212: the column for the converted value
AddTypedColumn(b, pos, field, name) ==
    IF b.exc # "" THEN b
    ELSE IF b.v.k = "ndarray"
    THEN IF b.v.u \in DOMAIN PYTABLES_TYPE_MAP
         THEN [b EXCEPT !.columns =
                  Update(@, name :> Col(PYTABLES_TYPE_MAP[b.v.u], Len(b.v.a), pos, 0))]
         ELSE [b EXCEPT !.exc = "KeyError"]
    ELSE IF b.v.k = "Time"
    THEN [b EXCEPT !.columns = Update(@, name :> Col("Float64Col", 0, pos, 0)),
                   !.tr = AddColumnTransform(@, name, TimeColumnTransform("tai", "mjd")),
                   !.reg = Append(@, [col |-> name, kind |-> "time"])]
    ELSE IF b.v.k \in DOMAIN PYTABLES_TYPE_MAP
    THEN [b EXCEPT !.columns = Update(@, name :> Col(PYTABLES_TYPE_MAP[b.v.k], 0, pos, 0))]
    ELSE IF b.v.k = "str"
    THEN [b EXCEPT !.tr = AddColumnTransform(@, name,
                                             StringTransform(SchemaMaxLength(field, b.v))),
                   !.reg = Append(@, [col |-> name, kind |-> "string"]),
                   !.columns = Update(@, name :> Col("StringCol", 0, NoPos,
                                                     SchemaMaxLength(field, b.v)))]
    ELSE [b EXCEPT !.exc = "ValueError"]

\* lines 214-221: the meta fields of the transform, then the description
AddColumnMeta(b, field, name) ==
    IF b.exc # "" THEN b
    ELSE [b EXCEPT !.meta =
             Update(IF HasTransform(b.tr, name) THEN Update(@, GetMeta(b.tr[name], name)) ELSE @,
                    (name \o S_DESC) :> AttrName(field.description))]

\* a schema build without the check of lines 168-170: a later record's field
\* replaces the column of the same name
AddColumnLastWins(b, table_name, pos, field, name, value) ==
    IF value.k = "Container" THEN b
    ELSE IF value.k = "Map" THEN b
    ELSE IF IsColumnExcluded(table_name, name) THEN b
    ELSE AddColumnMeta(
             AddTypedColumn(
                 QuantityStep(
                     EnumStep(UserTransform(b, name, value, ApplyColTransform(b.tr, name, value)),
                              name),
                     field, name),
                 pos, field, name),
             field, name)

\* HDF5TableWriter._add_column_to_schema
AddColumnToSchema(b, table_name, pos, field, name, value) ==
    IF value.k = "Container" THEN b
    ELSE IF value.k = "Map" THEN b
    ELSE IF IsColumnExcluded(table_name, name) THEN b
    ELSE IF name \in DOMAIN b.columns
    THEN [b EXCEPT !.log = Append(@, LogRec("warning", "duplicated column", name, ""))]
    ELSE AddColumnMeta(
             AddTypedColumn(
                 QuantityStep(
                     EnumStep(UserTransform(b, name, value, ApplyColTransform(b.tr, name, value)),
                              name),
                     field, name),
                 pos, field, name),
             field, name)

\* lines 258-284: the merge loop over the fields of the containers, from field
\* fi of container ci on, with the running position counter. The records of
\* the model are complete, so container.validate() (line 261) passes.
RECURSIVE SchemaFields(_, _, _, _, _, _)
RECURSIVE AfterColumn(_, _, _, _, _, _)

\* lines 277-284: after _add_column_to_schema returned or raised
AfterColumn(nb, table_name, containers, ci, fi, pos) ==
    IF nb.exc = "" THEN SchemaFields(nb, table_name, containers, ci, fi + 1, pos + 1)
    ELSE IF IsValueError(nb.exc)
    THEN SchemaFields(
             [nb EXCEPT !.exc = "",
                        !.log = Append(@, LogRec("warning", "not writable, skipping",
                                                 ColName(containers[ci], fi, add_prefix),
                                                 containers[ci].cls))],
             table_name, containers, ci, fi + 1, pos)
    ELSE [b |-> nb, pos |-> pos]

SchemaFields(b, table_name, containers, ci, fi, pos) ==
    IF ci > Len(containers) THEN [b |-> b, pos |-> pos]
    ELSE IF fi > Len(containers[ci].values)
    THEN SchemaFields(b, table_name, containers, ci + 1, 1, pos)
    ELSE AfterColumn(AddColumnToSchema(b, table_name, pos, ContainerFields(containers[ci].cls)[fi],
                                       ColName(containers[ci], fi, add_prefix),
                                       containers[ci].values[fi]),
                     table_name, containers, ci, fi, pos)

\* lines 285-287: on a normal end the version is added to the meta
SchemaBuilt(b) ==
    IF b.exc # "" THEN b ELSE [b EXCEPT !.meta = Update(@, K_VERSION :> AttrName("version"))]

\* HDF5TableWriter._create_hdf5_table_schema: the build it ends with; when no
\* exception is in flight its columns become self._schemas[table_name]
CreateHdf5TableSchema(table_name, containers) ==
    SchemaBuilt(SchemaFields(NewBuild(table_name), table_name, containers, 1, 1, 0).b)

\* lines 303-304: meta.update(container.meta) for each container in turn
RECURSIVE UpdateWithContainerMeta(_, _, _)
UpdateWithContainerMeta(meta, containers, ci) ==
    IF ci > Len(containers) THEN meta
    ELSE UpdateWithContainerMeta(Update(meta, containers[ci].meta), containers, ci + 1)

ClassNames(containers) == [i \in 1..Len(containers) |-> containers[i].cls]

\* h5file.create_table(where, name, description) and the attributes set on
\* the new table (lines 307-319): the file after it, or NodeError when the
\* node exists
CreateTable(file, node, title, description, meta) ==
    IF node \in DOMAIN file THEN [exc |-> "NodeError", file |-> file]
    ELSE [exc |-> "",
          file |-> Update(file, node :> [columns |-> description, attrs |-> meta,
                                         rows |-> <<>>, title |-> title])]

\* the writer's registries and the file, as a call leaves them
WriterState(schemas, tables, transforms, file, log, exc) ==
    [schemas |-> schemas, tables |-> tables, transforms |-> transforms, file |-> file,
     log |-> log, exc |-> exc]

\* lines 306-323: the table is created, or the node at table_path is taken
TableCreated(st, table_name, node, created) ==
    IF created.exc # "" THEN [st EXCEPT !.exc = created.exc]
    ELSE [st EXCEPT !.file = created.file, !.tables = Update(@, table_name :> node)]

\* a setup without the check of lines 295-296
SetupWithoutNameCheck(table_name, containers, b, table_path) ==
    IF b.exc # ""
    THEN WriterState(w_schemas, w_tables,
                     IF b.tr = NoEntries /\ table_name \notin DOMAIN w_transforms
                     THEN w_transforms ELSE Update(w_transforms, table_name :> b.tr),
                     h5file, b.log, b.exc)
    ELSE IF table_path \notin DOMAIN h5file
    THEN TableCreated(
             WriterState(Update(w_schemas, table_name :> b.columns), w_tables,
                         Update(w_transforms, table_name :> b.tr), h5file, b.log, ""),
             table_name, JoinPath(PathParent(table_path), PathStem(table_path)),
             CreateTable(h5file, JoinPath(PathParent(table_path), PathStem(table_path)),
                         ClassNames(containers), b.columns,
                         UpdateWithContainerMeta(b.meta, containers, 1)))
    ELSE WriterState(Update(w_schemas, table_name :> b.columns),
                     Update(w_tables, table_name :> table_path),
                     Update(w_transforms, table_name :> b.tr), h5file, b.log, "")

\* a setup that makes the table anew when its path is in the file
SetupReplacingTable(table_name, containers, b, table_path) ==
    IF b.exc # ""
    THEN WriterState(w_schemas, w_tables,
                     IF b.tr = NoEntries /\ table_name \notin DOMAIN w_transforms
                     THEN w_transforms ELSE Update(w_transforms, table_name :> b.tr),
                     h5file, b.log, b.exc)
    ELSE IF StartsWith(table_name, SLASH)
    THEN WriterState(Update(w_schemas, table_name :> b.columns), w_tables,
                     Update(w_transforms, table_name :> b.tr), h5file, b.log, "ValueError")
    ELSE IF table_path \notin DOMAIN h5file
    THEN TableCreated(
             WriterState(Update(w_schemas, table_name :> b.columns), w_tables,
                         Update(w_transforms, table_name :> b.tr), h5file, b.log, ""),
             table_name, JoinPath(PathParent(table_path), PathStem(table_path)),
             CreateTable(h5file, JoinPath(PathParent(table_path), PathStem(table_path)),
                         ClassNames(containers), b.columns,
                         UpdateWithContainerMeta(b.meta, containers, 1)))
    ELSE WriterState(Update(w_schemas, table_name :> b.columns),
                     Update(w_tables, table_name :> table_path),
                     Update(w_transforms, table_name :> b.tr),
                     Update(h5file, table_path :>
                                [columns |-> b.columns,
                                 attrs |-> UpdateWithContainerMeta(b.meta, containers, 1),
                                 rows |-> <<>>, title |-> ClassNames(containers)]),
                     b.log, "")

\* lines 295-323 of _setup_new_table, b being what the schema build returned
SetupWithSchema(table_name, containers, b, table_path) ==
    IF b.exc # ""
    THEN WriterState(w_schemas, w_tables,
                     IF b.tr = NoEntries /\ table_name \notin DOMAIN w_transforms
                     THEN w_transforms ELSE Update(w_transforms, table_name :> b.tr),
                     h5file, b.log, b.exc)
    ELSE IF StartsWith(table_name, SLASH)
    THEN WriterState(Update(w_schemas, table_name :> b.columns), w_tables,
                     Update(w_transforms, table_name :> b.tr), h5file, b.log, "ValueError")
    ELSE IF table_path \notin DOMAIN h5file
    THEN TableCreated(
             WriterState(Update(w_schemas, table_name :> b.columns), w_tables,
                         Update(w_transforms, table_name :> b.tr), h5file, b.log, ""),
             table_name, JoinPath(PathParent(table_path), PathStem(table_path)),
             CreateTable(h5file, JoinPath(PathParent(table_path), PathStem(table_path)),
                         ClassNames(containers), b.columns,
                         UpdateWithContainerMeta(b.meta, containers, 1)))
    ELSE WriterState(Update(w_schemas, table_name :> b.columns),
                     Update(w_tables, table_name :> table_path),
                     Update(w_transforms, table_name :> b.tr), h5file, b.log, "")

\* HDF5TableWriter._setup_new_table: the writer's registries and the file
\* after it, with the exception it raised
SetupNewTable(table_name, containers) ==
    SetupWithSchema(table_name, containers, CreateHdf5TableSchema(table_name, containers),
                    JoinPath(WriterGroup, table_name))

\* ------------------------------------------------------ writer: row append

\* table.colnames
ColNames(table) == DOMAIN table.columns

\* table.row: a fresh row buffer
NewRow(table) == [c \in ColNames(table) |-> ColDefault(table.columns[c])]

\* line 341: row[colname] = value, for the outcome tv of the transform
AssignAfterTransform(col, tv) == IF tv.exc # "" THEN tv ELSE RowAssign(col, tv.v)

\* lines 333-347: the fields of the containers, from field fi of container ci
\* on, put into the row r = [row, log, exc]
RECURSIVE FillRow(_, _, _, _, _, _, _)
RECURSIVE AfterAssign(_, _, _, _, _, _, _, _)

AfterAssign(r, table, trs, containers, ci, fi, addPrefix, av) ==
    IF av.exc # ""
    THEN [r EXCEPT !.exc = av.exc,
                   !.log = Append(@, LogRec("error", "Error writing col",
                                            ColName(containers[ci], fi, addPrefix),
                                            containers[ci].cls))]
    ELSE FillRow([r EXCEPT !.row[ColName(containers[ci], fi, addPrefix)] = av.v], table, trs,
                 containers, ci, fi + 1, addPrefix)

FillRow(r, table, trs, containers, ci, fi, addPrefix) ==
    IF ci > Len(containers) THEN r
    ELSE IF fi > Len(containers[ci].values)
    THEN FillRow(r, table, trs, containers, ci + 1, 1, addPrefix)
    ELSE IF ColName(containers[ci], fi, addPrefix) \notin ColNames(table)
    THEN FillRow(r, table, trs, containers, ci, fi + 1, addPrefix)
    ELSE AfterAssign(r, table, trs, containers, ci, fi, addPrefix,
                     AssignAfterTransform(
                         table.columns[ColName(containers[ci], fi, addPrefix)],
                         ApplyColTransform(trs, ColName(containers[ci], fi, addPrefix),
                                           containers[ci].values[fi])))

\* a row.append() that was left out: the filled row never reaches the table
RowAppendForgotten(table, row) == table

\* row.append(): the table with the row at its end
RowAppend(table, row) == [table EXCEPT !.rows = Append(@, row)]

\* a row.append() in a finally clause: the row is appended whatever happened
CommitRowAlways(st, node, r) ==
    [file |-> [st.file EXCEPT ![node] = RowAppend(@, r.row)], log |-> r.log, exc |-> r.exc,
     node |-> node]

\* line 348 on the filled row r: the row is appended unless filling it raised
CommitRow(st, node, r) ==
    IF r.exc # "" THEN [file |-> st.file, log |-> r.log, exc |-> r.exc, node |-> node]
    ELSE [file |-> [st.file EXCEPT ![node] = RowAppend(@, r.row)], log |-> r.log, exc |-> "",
          node |-> node]

\* HDF5TableWriter._append_row on the registries and the file that the setup
\* left: [file, log, exc, node]
AppendRow(table_name, containers, st) ==
    IF table_name \notin DOMAIN st.tables
    THEN [file |-> st.file, log |-> st.log, exc |-> "KeyError", node |-> <<>>]
    ELSE CommitRow(st, st.tables[table_name],
                   FillRow([row |-> NewRow(st.file[st.tables[table_name]]), log |-> st.log,
                            exc |-> ""],
                           st.file[st.tables[table_name]],
                           TableEntry(st.transforms, table_name), containers, 1, 1, add_prefix))

\* ------------------------------------------------------- writer: actions

NoCall == [op |-> "none", name |-> <<>>, input |-> <<>>, exc |-> ""]

\* a write that sets the table up on every call
SetupOnEveryWrite(table_name, containers) == SetupNewTable(table_name, containers)

\* lines 368-369: the setup runs when the name has no schema yet
SetupIfNew(table_name, containers) ==
    IF table_name \notin DOMAIN w_schemas THEN SetupNewTable(table_name, containers)
    ELSE WriterState(w_schemas, w_tables, w_transforms, h5file, <<>>, "")

\* line 371: the row is appended unless the setup raised
AppendAfterSetup(table_name, containers, st) ==
    IF st.exc # "" THEN [file |-> st.file, log |-> st.log, exc |-> st.exc, node |-> <<>>]
    ELSE AppendRow(table_name, containers, st)

\* the state a write call leaves, st being what the setup left and ap what the
\* append left
WriteEffect(table_name, containers, st, ap) ==
    /\ w_schemas' = st.schemas
    /\ w_tables' = st.tables
    /\ w_transforms' = st.transforms
    /\ h5file' = ap.file
    /\ w_log' = ap.log
    /\ w_last' = [op |-> "write", name |-> table_name, input |-> containers, exc |-> ap.exc]
    /\ written' = IF ap.exc = ""
                  THEN Update(written, ap.node :> Append(TableEntry(written, ap.node), containers))
                  ELSE written

WriteSteps(table_name, containers, st) ==
    WriteEffect(table_name, containers, st, AppendAfterSetup(table_name, containers, st))

\* HDF5TableWriter.write(table_name, containers)
Write(table_name, containers) ==
    /\ w_open
    /\ w_calls < MaxWrites
    /\ WriteSteps(table_name, containers, SetupIfNew(table_name, containers))
    /\ w_calls' = w_calls + 1
    /\ UNCHANGED <<add_prefix, w_open, w_exclusions, w_opens>>

\* TableWriter.exclude(table_name, pattern), the pattern naming one column
Exclude(table_name, col) ==
    /\ w_open
    /\ col \notin Exclusions(table_name)
    /\ w_exclusions' = Update(w_exclusions, table_name :> (Exclusions(table_name) \cup {col}))
    /\ w_log' = <<>>
    /\ w_last' = [op |-> "exclude", name |-> table_name, input |-> <<>>, exc |-> ""]
    /\ UNCHANGED <<h5file, add_prefix, w_open, w_schemas, w_tables, w_transforms, w_calls,
                   w_opens, written>>

\* the transform a caller of the model registers: a fixed-point packing of x
UserFixedPoint == FixedPointColumnTransform(2, 1, "float64", "int32")

\* TableWriter.add_column_transform(table_name, col_name, transform), called
\* before the first write
AddTransform(table_name, col, tr) ==
    /\ w_open
    /\ w_calls = 0
    /\ ~HasTransform(TableEntry(w_transforms, table_name), col)
    /\ w_transforms' = Update(w_transforms, table_name :>
                              AddColumnTransform(TableEntry(w_transforms, table_name), col, tr))
    /\ w_log' = <<>>
    /\ w_last' = [op |-> "add_column_transform", name |-> table_name, input |-> <<>>,
                  exc |-> ""]
    /\ UNCHANGED <<h5file, add_prefix, w_open, w_schemas, w_tables, w_exclusions, w_calls,
                   w_opens, written>>

\* HDF5TableWriter.close()
Close ==
    /\ w_open
    /\ w_open' = FALSE
    /\ w_log' = <<>>
    /\ w_last' = [op |-> "close", name |-> <<>>, input |-> <<>>, exc |-> ""]
    /\ UNCHANGED <<h5file, add_prefix, w_schemas, w_tables, w_transforms, w_exclusions,
                   w_calls, w_opens, written>>

\* ------------------------------------------------------------ reader state

VARIABLES
    r_open,          \* the reader is open on the file
    r_tables,        \* HDF5TableReader._tables: table name -> path of the table
    r_cols_to_read,  \* HDF5TableReader._cols_to_read: table name -> column names
    r_missing_cols,  \* HDF5TableReader._missing_cols: table name -> per type, field names
    r_meta,          \* HDF5TableReader._meta: table name -> type name -> attributes
    r_transforms,    \* TableReader._transforms: table name -> column -> transform
    r_log,           \* what the last reader call logged at warning level or above
    r_last,          \* the last reader call: [op, gen, exc]
    gens             \* the generators that read returned, in the order of the calls

rvars == <<r_open, r_tables, r_cols_to_read, r_missing_cols, r_meta, r_transforms, r_log,
           r_last, gens>>

\* the state of the image statistics (FeatureAggregator of
\* ctapipe/image/statistics.py)
VARIABLES
    aggregator,      \* configuration of the FeatureAggregator: image_parameters
                     \* and the criteria of its quality_query
    mono_parameters, \* the table of telescope events given to aggregate_table
    agg_table        \* what aggregate_table returned or raised

svars == <<aggregator, mono_parameters, agg_table>>

vars == <<wvars, rvars, svars>>

\* the table names the callers of read use
R_TABLE == <<"/", "t">>

ReadTableNames == {R_TABLE}

\* what a caller passes to read. containers is [kind, items]: one type
\* ("type"), one instance ("instance") or a sequence ("seq") of items
\* [cls, inst]; prefixes is [kind, b, s, l]: a bool, a str or a list.
OneType(cls) == [kind |-> "type", items |-> <<[cls |-> cls, inst |-> FALSE]>>]
OneInstance(cls) == [kind |-> "instance", items |-> <<[cls |-> cls, inst |-> TRUE]>>]
Types(classes) ==
    [kind |-> "seq", items |-> [i \in 1..Len(classes) |-> [cls |-> classes[i], inst |-> FALSE]]]
TypeAndInstance(cls, icls) ==
    [kind |-> "seq", items |-> <<[cls |-> cls, inst |-> FALSE], [cls |-> icls, inst |-> TRUE]>>]

PrefixBool(b) == [kind |-> "bool", b |-> b, s |-> <<>>, l |-> <<>>]
PrefixStr(s) == [kind |-> "str", b |-> FALSE, s |-> s, l |-> <<>>]
PrefixList(l) == [kind |-> "list", b |-> FALSE, s |-> <<>>, l |-> l]

ReadArgs(containers, prefixes, ignore) ==
    [containers |-> containers, prefixes |-> prefixes, ignore_columns |-> ignore]

ReadInputs ==
    {ReadArgs(OneType("A"), PrefixBool(FALSE), {}),
     ReadArgs(OneType("B"), PrefixBool(FALSE), {}),
     ReadArgs(OneType("C"), PrefixBool(FALSE), {}),
     ReadArgs(OneType("A"), PrefixBool(TRUE), {}),
     ReadArgs(OneType("B"), PrefixBool(TRUE), {<<"x">>}),
     ReadArgs(Types(<<"A", "B">>), PrefixBool(FALSE), {}),
     ReadArgs(Types(<<"A", "B">>), PrefixList(<<<<"a">>>>), {}),
     ReadArgs(OneInstance("A"), PrefixBool(FALSE), {}),
     ReadArgs(TypeAndInstance("A", "B"), PrefixBool(TRUE), {})}

\* ----------------------------------------------------------- reader: setup
\* The reader's registries during a call are rs = [tables, cols, missing,
\* meta, tr, log, exc].

ReaderState ==
    [tables |-> r_tables, cols |-> r_cols_to_read, missing |-> r_missing_cols,
     meta |-> r_meta, tr |-> r_transforms, log |-> <<>>, exc |-> ""]

\* lines 526-529: the column name without the prefix of the type
WithoutPrefix(colname, prefix) ==
    IF prefix # <<>> /\ StartsWith(colname, prefix) THEN DropFirst(colname, Len(prefix) + 1)
    ELSE colname

\* lines 544-547, 630-633: the column name of a field under a prefix
WithPrefix(fieldname, prefix) ==
    IF prefix # <<>> THEN prefix \o U_ \o fieldname ELSE fieldname

\* zip(containers, prefixes)
ZipLen(containers, prefixes) ==
    IF Len(containers) < Len(prefixes) THEN Len(containers) ELSE Len(prefixes)

\* lines 525-531: the columns that the types up to the i-th map to a field
ColsToRead(tab, containers, prefixes, i) ==
    {colname \in ColNames(tab) :
        \E j \in 1..i : WithoutPrefix(colname, prefixes[j]) \in FieldNames(containers[j])}

FieldNameSeq(cls) == [i \in 1..Len(ContainerFields(cls)) |-> ContainerFields(cls)[i].name]

\* a mapping that records no field as missing
MissingColsForgotten(tab, containers, prefixes, ignore_columns, i) == <<>>

\* lines 540-555: the fields of the i-th type that no column read so far holds
MissingCols(tab, containers, prefixes, ignore_columns, i) ==
    SelectSeq(FieldNameSeq(containers[i]),
              LAMBDA colname :
                  /\ colname \notin ignore_columns
                  /\ WithPrefix(colname, prefixes[i])
                         \notin ColsToRead(tab, containers, prefixes, i))

RECURSIVE Flatten(_)
Flatten(seqs) == IF seqs = <<>> THEN <<>> ELSE Head(seqs) \o Flatten(Tail(seqs))

\* HDF5TableReader._map_table_to_containers
MapTableToContainers(rs, table_name, tab, containers, prefixes, ignore_columns) ==
    IF rs.exc # "" THEN rs
    ELSE [rs EXCEPT
            !.cols = Update(@, table_name :>
                        ColsToRead(tab, containers, prefixes, ZipLen(containers, prefixes))),
            !.missing = Update(@, table_name :>
                        [i \in 1..ZipLen(containers, prefixes) |->
                            MissingCols(tab, containers, prefixes, ignore_columns, i)]),
            !.log = @ \o Flatten(
                        [i \in 1..ZipLen(containers, prefixes) |->
                            [m \in 1..Len(MissingCols(tab, containers, prefixes,
                                                      ignore_columns, i)) |->
                                LogRec("warning", "missing column",
                                       WithPrefix(MissingCols(tab, containers, prefixes,
                                                              ignore_columns, i)[m],
                                                  prefixes[i]),
                                       containers[i])]])]

\* lines 491-498: _is_allowed(key, container, prefix)
IsAllowed(key, cls, prefix) ==
    \E suffix \in ALLOWED_SUFFIXES :
        SplitHead(IF prefix # <<>> THEN prefix \o U_ \o key ELSE key, suffix) \in FieldNames(cls)

\* lines 503-506: the keys that line 504 finds allowed for one requested type
OwnKeys(tab, cls, prefix) == {key \in DOMAIN tab.attrs : IsAllowed(key, cls, prefix)}

\* the last position at which a type is requested: its dict is the one that
\* line 502 made last
LastIndexOf(cls, containers) == Max({i \in 1..Len(containers) : containers[i] = cls})

\* a partition that attaches to a type nothing but the keys found allowed
MetaOfOwnOnly(cls, tab, containers, own) ==
    [key \in own[LastIndexOf(cls, containers)] |-> tab.attrs[key]]

\* lines 500-512: the attributes attached to one requested type, own[i] being
\* the keys found allowed for the i-th; the keys of used_keys are those of
\* all the own[i]
MetaOf(cls, tab, containers, own) ==
    [key \in own[LastIndexOf(cls, containers)]
                 \cup (DOMAIN tab.attrs \ UNION {own[i] : i \in 1..Len(own)}) |->
        tab.attrs[key]]

MetadataPartitioned(rs, table_name, tab, containers, own) ==
    [rs EXCEPT
        !.meta = Update(@, table_name :>
                    [cls \in {containers[i] : i \in 1..Len(own)} |->
                        MetaOf(cls, tab, SubSeq(containers, 1, Len(own)), own)])]

\* HandleMetadata: HDF5TableReader._handle_metadata
HandleMetadata(rs, table_name, tab, containers, prefixes) ==
    IF rs.exc # "" THEN rs
    ELSE MetadataPartitioned(
             rs, table_name, tab, containers,
             [i \in 1..ZipLen(containers, prefixes) |->
                 OwnKeys(tab, containers[i], prefixes[i])])

\* the characters of the model in the order of their code points
Alphabet ==
    <<".", "/", "A", "B", "C", "D", "E", "F", "G", "H", "I", "J", "K", "L", "M", "N", "O",
      "P", "Q", "R", "S", "T", "U", "V", "W", "X", "Y", "Z", "_", "a", "b", "c", "d", "e",
      "f", "g", "h", "i", "j", "k", "l", "m", "n", "o", "p", "q", "r", "s", "t", "u", "v",
      "w", "x", "y", "z">>

CharRankOf ==
    [c \in {Alphabet[i] : i \in 1..Len(Alphabet)} |->
        CHOOSE i \in 1..Len(Alphabet) : Alphabet[i] = c]

CharRank(c) == CharRankOf[c]

\* s < t for two texts, as Python orders str
RECURSIVE TextLess(_, _)
TextLess(s, t) ==
    IF t = <<>> THEN FALSE
    ELSE IF s = <<>> THEN TRUE
    ELSE IF Head(s) = Head(t) THEN TextLess(Tail(s), Tail(t))
    ELSE CharRank(Head(s)) < CharRank(Head(t))

\* tab.attrs._f_list(): the attribute names, sorted
InsertText(sorted, s) ==
    LET k == Cardinality({i \in 1..Len(sorted) : TextLess(sorted[i], s)})
    IN  SubSeq(sorted, 1, k) \o <<s>> \o SubSeq(sorted, k + 1, Len(sorted))

RECURSIVE SortedTexts(_)
SortedTexts(S) ==
    IF S = {} THEN <<>>
    ELSE LET some == CHOOSE s \in S : TRUE IN InsertText(SortedTexts(S \ {some}), some)

\* a lookup that ignores the stored attribute
GetHdf5AttrDefaultOnly(attrs, name, default) == default

\* get_hdf5_attr(attrs, name, default)
GetHdf5Attr(attrs, name, default) == IF name \in DOMAIN attrs THEN attrs[name] ELSE default

\* the transforms of one table during _map_transforms_from_table_header:
\* t = [tr, exc]
RegisterTransform(t, colname, tr) == [t EXCEPT !.tr = AddColumnTransform(@, colname, tr)]

\* lines 450-483: the transform that one attribute yields
TransformFromAttr(t, tab, attr) ==
    IF t.exc # "" THEN t
    ELSE IF EndsWith(attr, S_UNIT)
    THEN IF tab.attrs[attr].k = "str" /\ tab.attrs[attr].u \in Units
         THEN RegisterTransform(t, DropLast(attr, 5), QuantityColumnTransform(tab.attrs[attr].u))
         ELSE [t EXCEPT !.exc = "ValueError"]
    ELSE IF EndsWith(attr, S_ENUM)
    THEN RegisterTransform(t, DropLast(attr, 5), EnumColumnTransform(tab.attrs[attr].u))
    ELSE IF EndsWith(attr, S_TIME_SCALE)
    THEN RegisterTransform(
             t, RPartitionHead(attr, S_TIME_SCALE),
             TimeColumnTransform(
                 tab.attrs[attr].u,
                 GetHdf5Attr(tab.attrs, RPartitionHead(attr, S_TIME_SCALE) \o S_TIME_FORMAT,
                             AttrName("mjd")).u))
    ELSE IF EndsWith(attr, S_TRANSFORM_SCALE)
    THEN IF RPartitionHead(attr, S_TRANSFORM_SCALE) \in ColNames(tab)
         THEN RegisterTransform(
                  t, RPartitionHead(attr, S_TRANSFORM_SCALE),
                  FixedPointColumnTransform(
                      tab.attrs[attr].n,
                      GetHdf5Attr(tab.attrs,
                                  RPartitionHead(attr, S_TRANSFORM_SCALE) \o S_TRANSFORM_OFFSET,
                                  PyInt(0)).n,
                      GetHdf5Attr(tab.attrs,
                                  RPartitionHead(attr, S_TRANSFORM_SCALE) \o S_TRANSFORM_DTYPE,
                                  AttrName("float32")).u,
                      ColDtype(tab.columns[RPartitionHead(attr, S_TRANSFORM_SCALE)].type)))
         ELSE [t EXCEPT !.exc = "KeyError"]
    ELSE IF EndsWith(attr, S_TRANSFORM)
    THEN IF tab.attrs[attr] = AttrName("string")
         THEN IF (RPartitionHead(attr, S_TRANSFORM) \o S_MAXLEN) \in DOMAIN tab.attrs
              THEN RegisterTransform(
                       t, RPartitionHead(attr, S_TRANSFORM),
                       StringTransform(tab.attrs[RPartitionHead(attr, S_TRANSFORM) \o S_MAXLEN].n))
              ELSE [t EXCEPT !.exc = "KeyError"]
         ELSE t
    ELSE t

RECURSIVE TransformsFromAttrs(_, _, _, _)
TransformsFromAttrs(t, tab, attrs, i) ==
    IF i > Len(attrs) THEN t
    ELSE TransformsFromAttrs(TransformFromAttr(t, tab, attrs[i]), tab, attrs, i + 1)

\* the registries once the transforms of the header are mapped
TransformsMapped(rs, table_name, t) ==
    [rs EXCEPT !.tr = IF t.tr = NoEntries /\ table_name \notin DOMAIN rs.tr THEN @
                      ELSE Update(@, table_name :> t.tr),
               !.exc = t.exc]

\* HDF5TableReader._map_transforms_from_table_header
MapTransformsFromTableHeader(rs, table_name, tab) ==
    IF rs.exc # "" THEN rs
    ELSE TransformsMapped(
             rs, table_name,
             TransformsFromAttrs([tr |-> TableEntry(rs.tr, table_name), exc |-> ""], tab,
                                 SortedTexts(DOMAIN tab.attrs), 1))

\* lines 436-437: the node is looked up and registered
GetNode(rs, table_name) ==
    IF table_name \notin DOMAIN h5file THEN [rs EXCEPT !.exc = "NoSuchNodeError"]
    ELSE [rs EXCEPT !.tables = Update(@, table_name :> table_name)]

\* HDF5TableReader._setup_table
SetupTable(rs, table_name, containers, prefixes, ignore_columns) ==
    IF table_name \notin DOMAIN h5file THEN GetNode(rs, table_name)
    ELSE MapTransformsFromTableHeader(
             HandleMetadata(
                 MapTableToContainers(GetNode(rs, table_name), table_name, h5file[table_name],
                                      containers, prefixes, ignore_columns),
                 table_name, h5file[table_name], containers, prefixes),
             table_name, h5file[table_name])

\* ------------------------------------------------------- reader: read
\* read is a generator function: calling it runs none of its body. A generator
\* is g = [pc, table_name, args, single, containers, prefixes, missing, n,
\* row_index, out, exc]; pc is "created" until the first next(), "running"
\* while it can yield, "done" after it returned, "raised" after it raised.

NewGenerator(table_name, args) ==
    [pc |-> "created", table_name |-> table_name, args |-> args, single |-> FALSE,
     containers |-> <<>>, prefixes |-> <<>>, missing |-> <<>>, n |-> 0, row_index |-> 0,
     out |-> <<>>, exc |-> ""]

ItemClasses(items) == [i \in 1..Len(items) |-> items[i].cls]

\* lines 603-608: the prefix of each requested type
NormalPrefixes(prefixes, classes) ==
    CASE prefixes.kind = "bool" /\ ~prefixes.b -> [i \in 1..Len(classes) |-> <<>>]
      [] prefixes.kind = "bool" /\ prefixes.b -> [i \in 1..Len(classes) |-> DefaultPrefix(classes[i])]
      [] prefixes.kind = "str" -> [i \in 1..Len(classes) |-> prefixes.s]
      [] OTHER -> prefixes.l

\* lines 587-611: the checks of the arguments, made when the body starts
ReadChecks(g) ==
    IF g.args.containers.kind = "instance" THEN [g EXCEPT !.pc = "raised", !.exc = "TypeError"]
    ELSE IF \E i \in 1..Len(g.args.containers.items) : g.args.containers.items[i].inst
    THEN [g EXCEPT !.pc = "raised", !.exc = "TypeError"]
    ELSE IF Len(NormalPrefixes(g.args.prefixes, ItemClasses(g.args.containers.items)))
                # Len(g.args.containers.items)
    THEN [g EXCEPT !.pc = "raised", !.exc = "ValueError"]
    ELSE [g EXCEPT !.single = (g.args.containers.kind = "type"),
                   !.containers = ItemClasses(g.args.containers.items),
                   !.prefixes = NormalPrefixes(g.args.prefixes,
                                               ItemClasses(g.args.containers.items))]

\* a read that sets the table up whenever its body starts
SetupOnEveryRead(g) ==
    IF g.exc # "" THEN ReaderState
    ELSE SetupTable(ReaderState, g.table_name, g.containers, g.prefixes, g.args.ignore_columns)

\* lines 613-616: the setup runs when the name is not registered yet
SetupIfUnknown(g) ==
    IF g.exc # "" \/ g.table_name \in DOMAIN r_tables THEN ReaderState
    ELSE SetupTable(ReaderState, g.table_name, g.containers, g.prefixes, g.args.ignore_columns)

\* lines 618-620: missing and range(len(tab)) are taken once
LoopEntered(g, rs) ==
    IF g.exc # "" THEN g
    ELSE IF rs.exc # "" THEN [g EXCEPT !.pc = "raised", !.exc = rs.exc]
    ELSE [g EXCEPT !.pc = "running",
                   !.missing = rs.missing[g.table_name],
                   !.n = Len(h5file[rs.tables[g.table_name]].rows),
                   !.row_index = -1]

\* zip(containers, prefixes, missing)
Zip3Len(g) ==
    Min({Len(g.containers), Len(g.prefixes), Len(g.missing)})

\* lines 628-636: the fields of a type whose column is read
ReadFields(rs, table_name, cls, prefix) ==
    SelectSeq(FieldNameSeq(cls),
              LAMBDA fieldname : WithPrefix(fieldname, prefix) \in rs.cols[table_name])

\* a read that hands out the stored value as it is
FieldValueAsStored(rs, table_name, row, fieldname, prefix) ==
    Ok(row[WithPrefix(fieldname, prefix)])

\* lines 638-640: the value of one field of one row
FieldValue(rs, table_name, row, fieldname, prefix) ==
    ApplyColTransformInverse(TableEntry(rs.tr, table_name), WithPrefix(fieldname, prefix),
                             row[WithPrefix(fieldname, prefix)])

Range(seq) == {seq[i] : i \in 1..Len(seq)}

\* the exception that building the record of one type raises, "" for none
RecordError(rs, table_name, row, cls, prefix) ==
    IF \E f \in Range(ReadFields(rs, table_name, cls, prefix)) :
           FieldValue(rs, table_name, row, f, prefix).exc # ""
    THEN FieldValue(rs, table_name, row,
                    ReadFields(rs, table_name, cls, prefix)[
                        Min({i \in 1..Len(ReadFields(rs, table_name, cls, prefix)) :
                                FieldValue(rs, table_name, row,
                                           ReadFields(rs, table_name, cls, prefix)[i],
                                           prefix).exc # ""})],
                    prefix).exc
    ELSE IF cls \notin DOMAIN rs.meta[table_name] THEN "KeyError"
    ELSE ""

\* lines 627-648: the record of one type for one row
RowRecord(rs, table_name, row, cls, prefix, missing_cols) ==
    [cls |-> cls, prefix |-> prefix,
     values |-> [f \in Range(ReadFields(rs, table_name, cls, prefix)) \cup Range(missing_cols) |->
                    IF f \in Range(missing_cols) THEN PyNone
                    ELSE FieldValue(rs, table_name, row, f, prefix).v],
     meta |-> rs.meta[table_name][cls]]

\* lines 623-653: what the body yields for the row at row_index, or the
\* exception it raises
RowItem(g, rs, row) ==
    IF \E j \in 1..Zip3Len(g) :
           RecordError(rs, g.table_name, row, g.containers[j], g.prefixes[j]) # ""
    THEN [exc |-> RecordError(rs, g.table_name, row,
                              g.containers[Min({j \in 1..Zip3Len(g) :
                                  RecordError(rs, g.table_name, row, g.containers[j],
                                              g.prefixes[j]) # ""})],
                              g.prefixes[Min({j \in 1..Zip3Len(g) :
                                  RecordError(rs, g.table_name, row, g.containers[j],
                                              g.prefixes[j]) # ""})]),
          single |-> g.single, records |-> <<>>]
    ELSE [exc |-> "", single |-> g.single,
          records |-> [j \in 1..Zip3Len(g) |->
                          RowRecord(rs, g.table_name, row, g.containers[j], g.prefixes[j],
                                    g.missing[j])]]

\* a generator that fills one record per type and hands it out for every row
YieldedInPlace(g, item) ==
    IF item.exc # "" THEN [g EXCEPT !.pc = "raised", !.exc = item.exc]
    ELSE [g EXCEPT !.row_index = @ + 1,
                   !.out = [k \in 1..(Len(@) + 1) |-> item]]

\* the generator after the item of its next row was built; the records of
\* the item are made by cls(**kwargs) in the loop (line 646), one new
\* instance per row and type, so the items handed out before stay as they are
Yielded(g, item) ==
    IF item.exc # "" THEN [g EXCEPT !.pc = "raised", !.exc = item.exc]
    ELSE [g EXCEPT !.row_index = @ + 1, !.out = Append(@, item)]

\* a loop over range(len(tab) - 1): it ends one row early
AdvanceStopsEarly(g, rs) ==
    IF g.pc # "running" THEN g
    ELSE IF g.row_index + 1 >= g.n - 1 THEN [g EXCEPT !.pc = "done"]
    ELSE Yielded(g, RowItem(g, rs, h5file[rs.tables[g.table_name]].rows[g.row_index + 2]))

\* line 620: the loop goes to the next index, or ends
Advance(g, rs) ==
    IF g.pc # "running" THEN g
    ELSE IF g.row_index + 1 >= g.n THEN [g EXCEPT !.pc = "done"]
    ELSE Yielded(g, RowItem(g, rs, h5file[rs.tables[g.table_name]].rows[g.row_index + 2]))

\* a reader whose generators share one cursor: the step of one moves all
ReaderEffectSharedCursor(i, rs, g) ==
    /\ r_tables' = rs.tables
    /\ r_cols_to_read' = rs.cols
    /\ r_missing_cols' = rs.missing
    /\ r_meta' = rs.meta
    /\ r_transforms' = rs.tr
    /\ r_log' = rs.log
    /\ r_last' = [op |-> "next", gen |-> i, exc |-> g.exc]
    /\ gens' = [j \in 1..Len(gens) |->
                   IF j = i THEN g
                   ELSE IF gens[j].pc = "running"
                   THEN [gens[j] EXCEPT !.row_index = g.row_index]
                   ELSE gens[j]]

\* the registries that the step leaves in the reader; row_index is a local
\* variable of the generator (line 620), so the other generators stay as
\* they are
ReaderEffect(i, rs, g) ==
    /\ r_tables' = rs.tables
    /\ r_cols_to_read' = rs.cols
    /\ r_missing_cols' = rs.missing
    /\ r_meta' = rs.meta
    /\ r_transforms' = rs.tr
    /\ r_log' = rs.log
    /\ r_last' = [op |-> "next", gen |-> i, exc |-> g.exc]
    /\ gens' = [gens EXCEPT ![i] = g]

\* the first next() on a generator: the body runs from its start to the first
\* yield
StartSteps(i, g, rs) == ReaderEffect(i, rs, Advance(LoopEntered(g, rs), rs))

NextFirst(i) ==
    /\ r_open
    /\ i \in 1..Len(gens)
    /\ gens[i].pc = "created"
    /\ StartSteps(i, ReadChecks(gens[i]), SetupIfUnknown(ReadChecks(gens[i])))
    /\ UNCHANGED r_open

\* a later next(): the body resumes after the yield
NextLater(i) ==
    /\ r_open
    /\ i \in 1..Len(gens)
    /\ gens[i].pc = "running"
    /\ ReaderEffect(i, ReaderState, Advance(gens[i], ReaderState))
    /\ UNCHANGED r_open

\* HDF5TableReader.read(table_name, containers, prefixes, ignore_columns), of
\* which the reader hands out no more than limit generators
ReadCall(table_name, args, limit) ==
    /\ r_open
    /\ Len(gens) < limit
    /\ gens' = Append(gens, NewGenerator(table_name, args))
    /\ r_log' = <<>>
    /\ r_last' = [op |-> "read", gen |-> Len(gens) + 1, exc |-> ""]
    /\ UNCHANGED <<r_open, r_tables, r_cols_to_read, r_missing_cols, r_meta, r_transforms>>

Read(table_name, args) == ReadCall(table_name, args, MaxReads)

\* HDF5TableWriter(filename, add_prefix=add_prefix, mode="a") on the file that
\* the writer before it closed: the file keeps its tables, the registries of
\* the new writer are empty
Reopen ==
    /\ ~w_open
    /\ ~r_open
    /\ w_opens < MaxOpens
    /\ w_calls < MaxWrites
    /\ w_open' = TRUE
    /\ w_opens' = w_opens + 1
    /\ w_schemas' = NoEntries
    /\ w_tables' = NoEntries
    /\ w_transforms' = NoEntries
    /\ w_exclusions' = NoEntries
    /\ w_log' = <<>>
    /\ w_last' = [op |-> "open", name |-> <<>>, input |-> <<>>, exc |-> ""]
    /\ UNCHANGED <<h5file, add_prefix, w_calls, written>>

\* HDF5TableReader(filename), once the writer has closed the file
OpenReader ==
    /\ ~w_open
    /\ ~r_open
    /\ r_open' = TRUE
    /\ r_log' = <<>>
    /\ r_last' = [op |-> "open", gen |-> 0, exc |-> ""]
    /\ UNCHANGED <<r_tables, r_cols_to_read, r_missing_cols, r_meta, r_transforms, gens>>

\* ---------------------------------------------------------- image statistics

\* A cell of a numeric column is [nan, n]: NaN, or the number n.  An
\* aggregated cell is [nan, num, den]: NaN, or the fraction num / den; the
\* std is kept as the variance it is the root of.
NaN == [nan |-> TRUE, n |-> 0]
Num(n) == [nan |-> FALSE, n |-> n]
NaNCell == [nan |-> TRUE, num |-> 0, den |-> 1]
Cell(num, den) == [nan |-> FALSE, num |-> num, den |-> den]

MORPHOLOGY == <<"m", "o", "r", "p", "h", "o", "l", "o", "g", "y">>
HILLAS == <<"h", "i", "l", "l", "a", "s">>
N_PIXELS == <<"n", "_", "p", "i", "x", "e", "l", "s">>
LENGTH == <<"l", "e", "n", "g", "t", "h">>
PSI == <<"p", "s", "i">>
PHI == <<"p", "h", "i">>

\* line 181: col = prefix + "_" + feature
ColumnName(prefix, feature) == prefix \o <<"_">> \o feature

\* the columns of the tables of telescope events of the model, beside obs_id
\* and event_id, with their units
TelColumns == {ColumnName(MORPHOLOGY, N_PIXELS), ColumnName(HILLAS, LENGTH)}
ColumnUnit(col) == IF col = ColumnName(HILLAS, LENGTH) THEN "deg" ELSE ""
ColumnDescription(colname) == <<"description of", colname>>

\* x >= y of numpy: False where x is NaN
GreaterEqual(x, y) == ~x.nan /\ x.n >= y

\* 0 & mask of numpy: 0 & True and 0 & False are both 0
ZeroAnd(mask) == [i \in DOMAIN mask |-> 0]

\* QualityQuery.get_table_mask: the rows that meet every criterion, a
\* criterion being "col > min"
GetTableMask(criteria, table) ==
    [i \in 1..Len(table) |->
        \A c \in criteria : ~table[i].values[c.col].nan /\ table[i].values[c.col].n > c.min]

\* the feature generator of a FeatureAggregator without configured features
\* returns the table as it is
FeatureGenerated(table) == table

\* get_subarray_index: the distinct array events in ascending order, and for
\* each row the index of its array event
EventIdsOf(table) == {table[i].event_id : i \in 1..Len(table)}

ArrayEventIds(table) ==
    [e \in 1..Cardinality(EventIdsOf(table)) |->
        CHOOSE x \in EventIdsOf(table) :
            Cardinality({y \in EventIdsOf(table) : y < x}) = e - 1]

TelToArrayIndices(table) ==
    [i \in 1..Len(table) |->
        1 + Cardinality({y \in EventIdsOf(table) : y < table[i].event_id})]

\* a valid mask that applies the quality query to the morphology columns too
ValidWithinCuts(prefix, table, col, passes_cuts) ==
    [i \in 1..Len(table) |->
        /\ passes_cuts[i]
        /\ IF prefix = MORPHOLOGY THEN GreaterEqual(table[i].values[col], 0)
           ELSE ~table[i].values[col].nan]

\* lines 183-186: & binds tighter than >= and ~ tighter than &, so line 184
\* compares the column with 0 & passes_cuts
Valid(prefix, table, col, passes_cuts) ==
    IF prefix = MORPHOLOGY
    THEN [i \in 1..Len(table) |-> GreaterEqual(table[i].values[col], ZeroAnd(passes_cuts)[i])]
    ELSE [i \in 1..Len(table) |-> ~table[i].values[col].nan /\ passes_cuts[i]]

\* the rows of array event e that the mask takes
RowsTaken(valid, indices, e) == {i \in DOMAIN valid : valid[i] /\ indices[i] = e}

\* the numbers of the column in the rows taken, one per row
NumbersTaken(table, col, rows) == [i \in rows |-> table[i].values[col].n]

RECURSIVE SumOf(_)
SumOf(numbers) ==
    IF DOMAIN numbers = {} THEN 0
    ELSE numbers[CHOOSE i \in DOMAIN numbers : TRUE]
         + SumOf([j \in DOMAIN numbers \ {CHOOSE i \in DOMAIN numbers : TRUE} |-> numbers[j]])

SquaresOf(numbers) == [i \in DOMAIN numbers |-> numbers[i] * numbers[i]]

\* max_ufunc, min_ufunc: per array event over the rows taken, NaN for none
MaxOver(numbers) ==
    IF DOMAIN numbers = {} THEN NaNCell
    ELSE Cell(Max({numbers[i] : i \in DOMAIN numbers}), 1)

MinOver(numbers) ==
    IF DOMAIN numbers = {} THEN NaNCell
    ELSE Cell(Min({numbers[i] : i \in DOMAIN numbers}), 1)

\* weighted_mean_std_ufunc with unit weights: per array event the mean of the
\* rows taken and the variance around it, NaN for none
MeanOver(numbers) ==
    IF DOMAIN numbers = {} THEN NaNCell
    ELSE Cell(SumOf(numbers), Cardinality(DOMAIN numbers))

VarianceOver(numbers) ==
    IF DOMAIN numbers = {} THEN NaNCell
    ELSE Cell(Cardinality(DOMAIN numbers) * SumOf(SquaresOf(numbers))
                  - SumOf(numbers) * SumOf(numbers),
              Cardinality(DOMAIN numbers) * Cardinality(DOMAIN numbers))

\* lines 188-217: the four aggregated columns of one image parameter
AggregatedColumns(table, col, valid, n_array_events, indices) ==
    IF \E i \in DOMAIN valid : valid[i]
    THEN [unit |-> ColumnUnit(col),
          max |-> [e \in 1..n_array_events |->
                      MaxOver(NumbersTaken(table, col, RowsTaken(valid, indices, e)))],
          min |-> [e \in 1..n_array_events |->
                      MinOver(NumbersTaken(table, col, RowsTaken(valid, indices, e)))],
          mean |-> [e \in 1..n_array_events |->
                       MeanOver(NumbersTaken(table, col, RowsTaken(valid, indices, e)))],
          std |-> [e \in 1..n_array_events |->
                      VarianceOver(NumbersTaken(table, col, RowsTaken(valid, indices, e)))]]
    ELSE [unit |-> ColumnUnit(col),
          max |-> [e \in 1..n_array_events |-> NaNCell],
          min |-> [e \in 1..n_array_events |-> NaNCell],
          mean |-> [e \in 1..n_array_events |-> NaNCell],
          std |-> [e \in 1..n_array_events |-> NaNCell]]

\* the result of a call: the exception raised, or the aggregated table
NotCalled == [called |-> FALSE, exc |-> "", event_id |-> <<>>, descriptions |-> <<>>,
              cols |-> <<>>]
AggRaised(e) == [NotCalled EXCEPT !.called = TRUE, !.exc = e]

\* the prefix of the image parameter that makes the column col
PrefixOfColumn(image_parameters, col) ==
    image_parameters[CHOOSE k \in 1..Len(image_parameters) :
                         ColumnName(image_parameters[k][1], image_parameters[k][2]) = col][1]

\* lines 165-217: the aggregated table, for image parameters of which none
\* is an angle
AggTable(image_parameters, table, passes_cuts) ==
    [called |-> TRUE, exc |-> "",
     event_id |-> ArrayEventIds(table),
     descriptions |-> [colname \in {"obs_id", "event_id"} |-> ColumnDescription(colname)],
     cols |-> [col \in {ColumnName(image_parameters[k][1], image_parameters[k][2]) :
                           k \in 1..Len(image_parameters)} |->
                  AggregatedColumns(
                      table, col,
                      Valid(PrefixOfColumn(image_parameters, col), table, col, passes_cuts),
                      Cardinality(EventIdsOf(table)), TelToArrayIndices(table))]]

\* FeatureAggregator.aggregate_table
AggregateTable(agg, table) ==
    IF Len(agg.image_parameters) = 0 THEN AggRaised("TraitError")
    ELSE IF \E k \in 1..Len(agg.image_parameters) : agg.image_parameters[k][2] \in {PSI, PHI}
    THEN AggRaised("NotImplementedError")
    ELSE AggTable(agg.image_parameters, FeatureGenerated(table),
                  GetTableMask(agg.quality_criteria, FeatureGenerated(table)))

\* no FeatureAggregator was made
NoAggregator == [image_parameters |-> <<>>, quality_criteria |-> {}]

\* a call of aggregate_table on the table of telescope events
CallAggregateTable ==
    /\ ~agg_table.called
    /\ agg_table' = AggregateTable(aggregator, mono_parameters)
    /\ UNCHANGED <<aggregator, mono_parameters>>

\* ------------------------------------------------------------ specification

Init ==
    /\ h5file = NoEntries
    /\ add_prefix \in BOOLEAN
    /\ w_open = TRUE
    /\ w_schemas = NoEntries
    /\ w_tables = NoEntries
    /\ w_transforms = NoEntries
    /\ w_exclusions = NoEntries
    /\ w_log = <<>>
    /\ w_last = NoCall
    /\ w_calls = 0
    /\ w_opens = 1
    /\ written = NoEntries
    /\ r_open = FALSE
    /\ r_tables = NoEntries
    /\ r_cols_to_read = NoEntries
    /\ r_missing_cols = NoEntries
    /\ r_meta = NoEntries
    /\ r_transforms = NoEntries
    /\ r_log = <<>>
    /\ r_last = [op |-> "none", gen |-> 0, exc |-> ""]
    /\ gens = <<>>
    /\ aggregator = NoAggregator
    /\ mono_parameters = <<>>
    /\ agg_table = NotCalled

Next ==
    \/ \E table_name \in TableNames, containers \in WriteInputs :
          Write(table_name, containers) /\ UNCHANGED <<rvars, svars>>
    \/ \E col \in ExcludableColumns : Exclude(T_PLAIN, col) /\ UNCHANGED <<rvars, svars>>
    \/ AddTransform(T_PLAIN, <<"x">>, UserFixedPoint) /\ UNCHANGED <<rvars, svars>>
    \/ Close /\ UNCHANGED <<rvars, svars>>
    \/ OpenReader /\ UNCHANGED <<wvars, svars>>
    \/ \E table_name \in ReadTableNames, args \in ReadInputs :
          Read(table_name, args) /\ UNCHANGED <<wvars, svars>>
    \/ \E i \in 1..MaxReads : NextFirst(i) /\ UNCHANGED <<wvars, svars>>
    \/ \E i \in 1..MaxReads : NextLater(i) /\ UNCHANGED <<wvars, svars>>

Spec == Init /\ [][Next]_vars

\* the writers of one file, one after the other
NextReopen ==
    \/ \E table_name \in TableNames, containers \in WriteInputs :
          Write(table_name, containers) /\ UNCHANGED <<rvars, svars>>
    \/ \E col \in ExcludableColumns : Exclude(T_PLAIN, col) /\ UNCHANGED <<rvars, svars>>
    \/ AddTransform(T_PLAIN, <<"x">>, UserFixedPoint) /\ UNCHANGED <<rvars, svars>>
    \/ Close /\ UNCHANGED <<rvars, svars>>
    \/ Reopen /\ UNCHANGED <<rvars, svars>>

SpecReopen == Init /\ [][NextReopen]_vars

\* what the writer of a file with two readers of one table is given, and
\* what the calls of read are given
TwoReadsWriteInputs == {<<A1>>, <<A2>>, <<B1>>, <<B1, A2>>}
TwoReadsReadInputs ==
    {ReadArgs(OneType("A"), PrefixBool(FALSE), {}),
     ReadArgs(Types(<<"A", "B">>), PrefixBool(FALSE), {})}

\* one writer, then one reader that hands out MaxSequences generators, whose
\* steps interleave
NextTwoReads ==
    \/ \E containers \in TwoReadsWriteInputs : Write(T_PLAIN, containers) /\ UNCHANGED <<rvars, svars>>
    \/ Close /\ UNCHANGED <<rvars, svars>>
    \/ OpenReader /\ UNCHANGED <<wvars, svars>>
    \/ \E args \in TwoReadsReadInputs : ReadCall(R_TABLE, args, MaxSequences) /\ UNCHANGED <<wvars, svars>>
    \/ \E i \in 1..MaxSequences : NextFirst(i) /\ UNCHANGED <<wvars, svars>>
    \/ \E i \in 1..MaxSequences : NextLater(i) /\ UNCHANGED <<wvars, svars>>

SpecTwoReads == Init /\ [][NextTwoReads]_vars

\* a record whose free-form metadata holds an entry named like the transform
\* attribute of a column a, without the maximum length that goes with it
A4 == Container("A", <<PyInt(4), Quantity(2, "GeV"), EnumMember("EventType", 1)>>,
                (<<"a">> \o S_TRANSFORM) :> AttrName("string"))

\* a record whose free-form metadata holds an entry named like the unit
\* attribute of its field e
A5 == Container("A", <<PyInt(5), Quantity(1, "TeV"), EnumMember("EventType", 0)>>,
                (<<"e">> \o S_UNIT) :> AttrName("TeV"))

\* what the writer of a file is given whose header the free-form metadata of
\* the records reaches into
BrokenHeaderWriteInputs == {<<A1>>, <<A4>>, <<A5>>}

\* one writer, then one reader that reads the table MaxSequences times with
\* one type
NextBrokenHeader ==
    \/ \E containers \in BrokenHeaderWriteInputs : Write(T_PLAIN, containers) /\ UNCHANGED <<rvars, svars>>
    \/ Close /\ UNCHANGED <<rvars, svars>>
    \/ OpenReader /\ UNCHANGED <<wvars, svars>>
    \/ ReadCall(R_TABLE, ReadArgs(OneType("A"), PrefixBool(FALSE), {}), MaxSequences)
           /\ UNCHANGED <<wvars, svars>>
    \/ \E i \in 1..MaxSequences : NextFirst(i) /\ UNCHANGED <<wvars, svars>>
    \/ \E i \in 1..MaxSequences : NextLater(i) /\ UNCHANGED <<wvars, svars>>

SpecBrokenHeader == Init /\ [][NextBrokenHeader]_vars

\* the entry that a caller of read puts into the metadata of a record it
\* was given, and the values it sets it to
NOTE_KEY == <<"n", "o", "t", "e">>
NoteValues == {PyInt(7), PyInt(8)}

\* meta[key] = val on a dict
MetaWithEntry(meta, key, val) == Update(meta, key :> val)

\* line 647: container.meta is bound to the dict self._meta[table_name][cls]
\* itself, so the records of one type that the reader produced from a table
\* all see the dict meta
RecordsSeeing(records, cls, meta) ==
    [c \in 1..Len(records) |->
        IF records[c].cls = cls THEN [records[c] EXCEPT !.meta = meta] ELSE records[c]]

ItemsSeeing(out, cls, meta) ==
    [b \in 1..Len(out) |-> [out[b] EXCEPT !.records = RecordsSeeing(@, cls, meta)]]

GeneratorsSeeing(gs, table_name, cls, meta) ==
    [a \in 1..Len(gs) |->
        IF gs[a].table_name = table_name
        THEN [gs[a] EXCEPT !.out = ItemsSeeing(@, cls, meta)]
        ELSE gs[a]]

\* record.meta[key] = val by the caller, on the record rec of the item that
\* generator i handed out as its k-th: the dict is the one of the reader
\* (line 647), which no setup replaces while the name is registered
SetRecordMeta(i, k, rec, key, val) ==
    /\ i \in 1..Len(gens)
    /\ k \in 1..Len(gens[i].out)
    /\ rec \in 1..Len(gens[i].out[k].records)
    /\ gens[i].table_name \in DOMAIN r_meta
    /\ gens[i].out[k].records[rec].cls \in DOMAIN r_meta[gens[i].table_name]
    /\ r_meta' = [r_meta EXCEPT ![gens[i].table_name][gens[i].out[k].records[rec].cls] =
                     MetaWithEntry(@, key, val)]
    /\ gens' = GeneratorsSeeing(
                   gens, gens[i].table_name, gens[i].out[k].records[rec].cls,
                   MetaWithEntry(r_meta[gens[i].table_name][gens[i].out[k].records[rec].cls],
                                 key, val))
    /\ r_last' = [op |-> "set_meta", gen |-> i, exc |-> "", item |-> k, rec |-> rec]
    /\ UNCHANGED <<r_open, r_tables, r_cols_to_read, r_missing_cols, r_transforms, r_log>>

\* what the writer of a file is given whose records a caller annotates
RecordMetaWriteInputs == {<<A1>>, <<A2>>}

\* one writer, then one reader that reads the table MaxSequences times with
\* one type, and a caller that sets an entry in the metadata of the records
\* it was given
NextRecordMeta ==
    \/ \E containers \in RecordMetaWriteInputs : Write(T_PLAIN, containers) /\ UNCHANGED <<rvars, svars>>
    \/ Close /\ UNCHANGED <<rvars, svars>>
    \/ OpenReader /\ UNCHANGED <<wvars, svars>>
    \/ ReadCall(R_TABLE, ReadArgs(OneType("A"), PrefixBool(FALSE), {}), MaxSequences)
           /\ UNCHANGED <<wvars, svars>>
    \/ \E i \in 1..MaxSequences : NextFirst(i) /\ UNCHANGED <<wvars, svars>>
    \/ \E i \in 1..MaxSequences : NextLater(i) /\ UNCHANGED <<wvars, svars>>
    \/ \E i \in 1..MaxSequences : \E k \in 1..MaxWrites : \E val \in NoteValues :
           SetRecordMeta(i, k, 1, NOTE_KEY, val) /\ UNCHANGED <<wvars, svars>>

SpecRecordMeta == Init /\ [][NextRecordMeta]_vars

\* the image parameters that a FeatureAggregator is configured with, the
\* criteria of its quality query, and the tables of telescope events
ParameterChoices == {<<MORPHOLOGY, N_PIXELS>>, <<HILLAS, LENGTH>>, <<HILLAS, PSI>>}
ImageParameterLists == UNION {[1..n -> ParameterChoices] : n \in 0..MaxParameters}
QualityCriteria == {{}, {[col |-> ColumnName(HILLAS, LENGTH), min |-> 1]}}
PixelCounts == {Num(-1), Num(1), Num(2)}
Lengths == {NaN, Num(1), Num(2)}
TelRows ==
    {[obs_id |-> 1, event_id |-> e,
      values |-> (ColumnName(MORPHOLOGY, N_PIXELS) :> p @@ ColumnName(HILLAS, LENGTH) :> l)] :
        e \in 1..MaxArrayEvents, p \in PixelCounts, l \in Lengths}
TelTables == UNION {[1..n -> TelRows] : n \in 0..MaxTelRows}

\* a FeatureAggregator and a table of telescope events, no file
InitAggregate ==
    /\ h5file = NoEntries
    /\ add_prefix = FALSE
    /\ w_open = FALSE
    /\ w_schemas = NoEntries
    /\ w_tables = NoEntries
    /\ w_transforms = NoEntries
    /\ w_exclusions = NoEntries
    /\ w_log = <<>>
    /\ w_last = NoCall
    /\ w_calls = 0
    /\ w_opens = 0
    /\ written = NoEntries
    /\ r_open = FALSE
    /\ r_tables = NoEntries
    /\ r_cols_to_read = NoEntries
    /\ r_missing_cols = NoEntries
    /\ r_meta = NoEntries
    /\ r_transforms = NoEntries
    /\ r_log = <<>>
    /\ r_last = [op |-> "none", gen |-> 0, exc |-> ""]
    /\ gens = <<>>
    /\ aggregator \in [image_parameters : ImageParameterLists,
                       quality_criteria : QualityCriteria]
    /\ mono_parameters \in TelTables
    /\ agg_table = NotCalled

NextAggregate == CallAggregateTable /\ UNCHANGED <<wvars, rvars>>

SpecAggregate == InitAggregate /\ [][NextAggregate]_vars

\* ------------------------------------------------------------------ claims

\* the number of rows stored at a path, 0 when there is no table
RowCount(file, node) == IF node \in DOMAIN file THEN Len(file[node].rows) ELSE 0

\* the step is a write call that returned normally
WriteReturned == w_calls' = w_calls + 1 /\ w_last'.exc = ""

\* the step is a write call that raised
WriteRaised == w_calls' = w_calls + 1 /\ w_last'.exc # ""

\* C1: every write call that returns normally, the first one to a name and a
\* write of several records included, appends exactly one row to the table of
\* that name and no row to any other table; the row count of a table is the
\* number of successful writes it received since it was created.
C1_OneRowPerWrite ==
    [][WriteReturned =>
          /\ w_last'.name \in DOMAIN w_tables'
          /\ w_tables'[w_last'.name] \in DOMAIN h5file'
          /\ \A node \in DOMAIN h5file' :
                 /\ RowCount(h5file', node)
                        = RowCount(h5file, node)
                          + (IF node = w_tables'[w_last'.name] THEN 1 ELSE 0)
                 /\ RowCount(h5file', node) = Len(TableEntry(written', node))]_vars

\* a second successful write, of two records, left two rows in its table
C1_Witness ==
    /\ w_last.op = "write"
    /\ w_last.exc = ""
    /\ Len(w_last.input) = 2
    /\ w_calls = 2
    /\ RowCount(h5file, w_tables[w_last.name]) = 2

\* the step is a write call
WriteCalled == w_calls' = w_calls + 1

\* a table as its header describes it: everything but its rows
TableHeader(table) == [columns |-> table.columns, attrs |-> table.attrs, title |-> table.title]

\* C2: a write that returns normally leaves its table name with a schema and
\* a table; a write to a name that has a schema, whether it returns or raises,
\* changes no schema, no registered transform and no table's columns, header
\* attributes or title, creates no table, and leaves the rows of every table
\* as they were, but for one row appended to the table of that name.
C2_SchemaFixedAfterFirstWrite ==
    [][/\ WriteReturned => /\ w_last'.name \in DOMAIN w_schemas'
                           /\ w_last'.name \in DOMAIN w_tables'
       /\ (WriteCalled /\ w_last'.name \in DOMAIN w_schemas) =>
              /\ w_schemas' = w_schemas
              /\ w_transforms' = w_transforms
              /\ w_tables' = w_tables
              /\ DOMAIN h5file' = DOMAIN h5file
              /\ \A node \in DOMAIN h5file :
                     /\ TableHeader(h5file'[node]) = TableHeader(h5file[node])
                     /\ \/ h5file'[node].rows = h5file[node].rows
                        \/ /\ w_last'.exc = ""
                           /\ node = w_tables[w_last'.name]
                           /\ Len(h5file'[node].rows) = Len(h5file[node].rows) + 1
                           /\ SubSeq(h5file'[node].rows, 1, Len(h5file[node].rows))
                                  = h5file[node].rows]_vars

\* two successful writes to one name, of records of different types
C2_Witness ==
    /\ w_calls = 2
    /\ w_last.op = "write"
    /\ w_last.exc = ""
    /\ DOMAIN w_schemas = {w_last.name}
    /\ Len(TableEntry(written, w_tables[w_last.name])) = 2
    /\ ClassNames(written[w_tables[w_last.name]][1])
           # ClassNames(written[w_tables[w_last.name]][2])

\* a == b as Python evaluates it for a written value a and a read value b
ValuesEqual(a, b) ==
    CASE a.k = "Quantity" ->
            /\ b.k = "Quantity"
            /\ UnitDimension(a.u) = UnitDimension(b.u)
            /\ a.n * UnitFactor(a.u) = b.n * UnitFactor(b.u)
      [] a.k = "Enum" -> b.k = "Enum" /\ b.u = a.u /\ b.n = a.n
      [] a.k = "Time" -> b.k = "Time" /\ TaiMjd(a) = TaiMjd(b)
      [] a.k = "ndarray" -> b.k = "ndarray" /\ b.a = a.a
      [] a.k = "str" -> b.k = "str" /\ b.a = a.a
      [] OTHER -> IsNumber(b) /\ b.n = a.n

\* the value is of a kind the writer supports for the field
SupportedValue(field, v) ==
    CASE v.k = "Quantity" ->
            field.unit = "" \/ UnitDimension(field.unit) = UnitDimension(v.u)
      [] v.k = "Enum" -> v.n \in EnumCodes(v.u)
      [] v.k = "Time" -> TRUE
      [] v.k = "ndarray" -> v.u \in DOMAIN PYTABLES_TYPE_MAP
      [] v.k = "str" -> field.max_length # 0 /\ Len(Utf8Encode(v.a)) <= field.max_length
      [] OTHER -> IsNumber(v)

\* the rows of the table are single records of one type, every field of a
\* supported kind and of the kind that it has in the first record
RecordsOfType(inputs, cls) ==
    \A k \in 1..Len(inputs) :
        /\ Len(inputs[k]) = 1
        /\ inputs[k][1].cls = cls
        /\ \A f \in 1..Len(ContainerFields(cls)) :
               /\ SupportedValue(ContainerFields(cls)[f], inputs[k][1].values[f])
               /\ inputs[k][1].values[f].k = inputs[1][1].values[f].k

\* a fixed-point transform that the caller registered is on a column of
\* numbers or arrays of numbers
FixedPointApplies(trs, inputs) ==
    \A k \in 1..Len(inputs) : \A ci \in 1..Len(inputs[k]) :
        \A f \in 1..Len(inputs[k][ci].values) :
            (/\ HasTransform(trs, ColName(inputs[k][ci], f, add_prefix))
             /\ trs[ColName(inputs[k][ci], f, add_prefix)].kind = "fixedpoint") =>
                (IsNumber(inputs[k][ci].values[f]) \/ inputs[k][ci].values[f].k = "ndarray")

\* the generator read a table that every write call of the writer appended to
\* under one table name, all of whose rows are records of one type that were
\* written without
\* exclusions, with that type, with the writer's prefix option and ignoring no
\* column, on a reader that set the table up for it
RoundTripCase(g) ==
    /\ g.pc = "done"
    /\ Len(TableEntry(written, g.table_name)) = w_calls
    /\ g.args.containers.kind = "type"
    /\ g.args.prefixes = PrefixBool(add_prefix)
    /\ g.args.ignore_columns = {}
    /\ w_exclusions = NoEntries
    /\ g.table_name \in DOMAIN written
    /\ RecordsOfType(written[g.table_name], g.args.containers.items[1].cls)
    /\ Cardinality({name \in DOMAIN w_tables : w_tables[name] = g.table_name}) = 1
    /\ \A name \in DOMAIN w_tables :
           w_tables[name] = g.table_name =>
               FixedPointApplies(TableEntry(w_transforms, name), written[g.table_name])
    /\ \A j \in 1..Len(gens) : gens[j].pc = "created" \/ gens[j].args = g.args

\* C3: writing N records of one type, whose fields are plain numbers,
\* quantities, enum members, times, arrays of a listed dtype or strings no
\* longer than their declared maximum length, to a new table and reading the
\* table with that type yields N records, and every field of the k-th record
\* read equals (Python ==) the field of the k-th record written.
C3_RoundTrip ==
    \A i \in 1..Len(gens) :
        RoundTripCase(gens[i]) =>
            /\ Len(gens[i].out) = Len(written[gens[i].table_name])
            /\ \A k \in 1..Len(gens[i].out) :
                   /\ Len(gens[i].out[k].records) = 1
                   /\ gens[i].out[k].records[1].cls = gens[i].args.containers.items[1].cls
                   /\ \A f \in 1..Len(ContainerFields(gens[i].out[k].records[1].cls)) :
                          LET name == ContainerFields(gens[i].out[k].records[1].cls)[f].name
                          IN  /\ name \in DOMAIN gens[i].out[k].records[1].values
                              /\ ValuesEqual(written[gens[i].table_name][k][1].values[f],
                                             gens[i].out[k].records[1].values[name])

\* two records with a quantity given in different units were read back
C3_Witness ==
    \E i \in 1..Len(gens) :
        /\ RoundTripCase(gens[i])
        /\ Len(gens[i].out) = 2
        /\ written[gens[i].table_name][1] # written[gens[i].table_name][2]
        /\ gens[i].args.containers.items[1].cls = "A"

\* a record with an array, a string of a two-byte character and a time was
\* read back
C3_WitnessArray ==
    \E i \in 1..Len(gens) :
        /\ RoundTripCase(gens[i])
        /\ Len(gens[i].out) >= 1
        /\ written[gens[i].table_name][1] = <<B2>>

\* the items a generator yielded are those of the first rows of its table, in
\* the order of the rows
YieldedInRowOrder(g) ==
    /\ Len(g.out) = g.row_index + 1
    /\ Len(g.out) <= Len(h5file[r_tables[g.table_name]].rows)
    /\ \A k \in 1..Len(g.out) :
           g.out[k] = RowItem(g, ReaderState, h5file[r_tables[g.table_name]].rows[k])

\* C4: a generator that read returned over a table of R rows yields the item
\* built from row 0, then that of row 1, and so on, never more than R items;
\* it ends only once it has yielded R items, and it ends normally, without an
\* error.
C4_OneItemPerRowInOrder ==
    \A i \in 1..Len(gens) :
        /\ gens[i].pc \in {"running", "done"} => YieldedInRowOrder(gens[i])
        /\ gens[i].pc = "done" =>
               /\ Len(gens[i].out) = Len(h5file[r_tables[gens[i].table_name]].rows)
               /\ gens[i].exc = ""

\* a generator ended after it yielded the items of two rows
C4_Witness ==
    \E i \in 1..Len(gens) :
        /\ gens[i].pc = "done"
        /\ Len(gens[i].out) = 2
        /\ gens[i].out[1] # gens[i].out[2]
        /\ r_last = [op |-> "next", gen |-> i, exc |-> ""]

\* the step is a write call that built and registered the schema of its name
SchemaRegistered ==
    /\ WriteCalled
    /\ w_last'.name \notin DOMAIN w_schemas
    /\ w_last'.name \in DOMAIN w_schemas'

\* the column names of one record
RecordColNames(container) ==
    {ColName(container, i, add_prefix) : i \in 1..Len(container.values)}

\* the entry of a dict, or "none"
EntryOrNone(dict, key) == IF key \in DOMAIN dict THEN dict[key] ELSE "none"

\* C5: when the first write to a name merges two records that both have a
\* field of column name x, and the first record's x makes a column, the
\* schema has the column x as the first record alone yields it (type, shape,
\* position, item size), x has the transform that the first record alone
\* yields, and a warning about the duplicated column x is logged.
C5_FirstRecordWinsDuplicate ==
    [][(SchemaRegistered /\ Len(w_last'.input) = 2) =>
          \A x \in RecordColNames(w_last'.input[1]) \cap RecordColNames(w_last'.input[2]) :
              x \in DOMAIN CreateHdf5TableSchema(w_last'.name, <<w_last'.input[1]>>).columns =>
                 /\ x \in DOMAIN w_schemas'[w_last'.name]
                 /\ w_schemas'[w_last'.name][x]
                        = CreateHdf5TableSchema(w_last'.name, <<w_last'.input[1]>>).columns[x]
                 /\ EntryOrNone(TableEntry(w_transforms', w_last'.name), x)
                        = EntryOrNone(CreateHdf5TableSchema(w_last'.name,
                                                            <<w_last'.input[1]>>).tr, x)
                 /\ \E k \in 1..Len(w_log') :
                        w_log'[k] = LogRec("warning", "duplicated column", x, "")]_vars

\* a first write merged a record whose x is a quantity with one whose x is a
\* plain number: the column x is a float column with the quantity's transform
C5_Witness ==
    /\ w_last.op = "write"
    /\ Len(w_last.input) = 2
    /\ w_calls = 1
    /\ w_last.name \in DOMAIN w_schemas
    /\ <<"x">> \in DOMAIN w_schemas[w_last.name]
    /\ w_last.input[1].values[1].k = "Quantity"
    /\ w_last.input[2].values[1].k = "int"
    /\ w_schemas[w_last.name][<<"x">>].type = "Float64Col"
    /\ \E k \in 1..Len(w_log) : w_log[k].msg = "duplicated column"

\* the column names of the records of one write, in the order of the merge
MergedColNames(containers) ==
    Flatten([i \in 1..Len(containers) |->
                [f \in 1..Len(containers[i].values) |-> ColName(containers[i], f, add_prefix)]])

\* the columns that the log reports as skipped for being not writable
SkippedColumns(log) == {log[k].col : k \in {j \in 1..Len(log) : log[j].msg = "not writable, skipping"}}

\* the position of a column when the excluded fields are absent from the
\* records: the number of fields merged before the one that made the column,
\* not counting those that were skipped as not writable
PositionWithoutExcluded(names, col, excluded, skipped) ==
    Cardinality({j \in 1..(Min({i \in 1..Len(names) : names[i] = col}) - 1) :
                    names[j] \notin excluded /\ names[j] \notin skipped})

\* C6: a column name that an exclusion rule of the table matches is not in the
\* table's schema, and the columns of the schema have the positions they
\* would have if the excluded fields were absent from the records.
C6_ExcludedTakesNoPosition ==
    [][SchemaRegistered =>
          \A col \in DOMAIN w_schemas'[w_last'.name] :
              /\ col \notin Exclusions(w_last'.name)
              /\ w_schemas'[w_last'.name][col].pos # NoPos =>
                     w_schemas'[w_last'.name][col].pos
                         = PositionWithoutExcluded(MergedColNames(w_last'.input), col,
                                                   Exclusions(w_last'.name),
                                                   SkippedColumns(w_log'))]_vars

\* the columns for which the log holds a warning
WarnedColumns(log) == {log[k].col : k \in {j \in 1..Len(log) : log[j].level = "warning"}}

\* the values that the records of one write hold for a column name
ValuesOf(containers, col) ==
    UNION {{containers[ci].values[fi] :
               fi \in {f \in 1..Len(containers[ci].values) :
                          ColName(containers[ci], f, add_prefix) = col}} :
           ci \in 1..Len(containers)}

\* C7: in the schema build of a first write no field aborts the write: the
\* build ends with a registered schema, and every field of the records is a
\* column of it, or was skipped with a warning, or is excluded or a
\* sub-container or map, which the build leaves out by design.
C7_UnstorableFieldNeverAborts ==
    [][(WriteCalled /\ w_last'.name \notin DOMAIN w_schemas) =>
          /\ w_last'.name \in DOMAIN w_schemas'
          /\ \A col \in Range(MergedColNames(w_last'.input)) :
                 \/ col \in DOMAIN w_schemas'[w_last'.name]
                 \/ col \in WarnedColumns(w_log')
                 \/ col \in Exclusions(w_last'.name)
                 \/ \A v \in ValuesOf(w_last'.input, col) : v.k \in {"Container", "Map"}]_vars

\* the arguments of a read call are record instances where types are
\* required, or a prefix list whose length is not the number of types
BadReadArgs(args) ==
    \/ \E i \in 1..Len(args.containers.items) : args.containers.items[i].inst
    \/ args.prefixes.kind = "list" /\ Len(args.prefixes.l) # Len(args.containers.items)

\* C8: a call of read with record instances, or with a prefix list of the
\* wrong length, raises its error in the call itself.
C8_BadArgsRaiseAtCall ==
    (r_last.op = "read" /\ BadReadArgs(gens[r_last.gen].args)) =>
        r_last.exc \in {"TypeError", "ValueError"}

\* C9: a write whose table name starts with "/" raises, creates no table and
\* appends no row: the file and the writer's tables are as before the call.
C9_RootedNameRaises ==
    [][(WriteCalled /\ StartsWith(w_last'.name, SLASH)) =>
          /\ w_last'.exc # ""
          /\ h5file' = h5file
          /\ w_tables' = w_tables
          /\ written' = written]_vars

\* the first write to the name "/t" raised ValueError and the file is empty
C9_Witness ==
    /\ w_last.op = "write"
    /\ w_last.name = T_ROOTED
    /\ w_last.exc = "ValueError"
    /\ w_calls = 1
    /\ h5file = NoEntries

\* the later write to the name "/t" raised as well, and the file is empty
C9_WitnessLater ==
    /\ w_last.op = "write"
    /\ w_last.name = T_ROOTED
    /\ w_last.exc # ""
    /\ w_calls = 2
    /\ T_ROOTED \in DOMAIN w_schemas
    /\ h5file = NoEntries

\* the last record of the log reports the column and the record type of a
\* field of the write whose transform or row assignment raises exc
FailingFieldLogged(log, containers, table, trs, exc) ==
    /\ log # <<>>
    /\ log[Len(log)].level = "error"
    /\ log[Len(log)].msg = "Error writing col"
    /\ \E ci \in 1..Len(containers) :
           /\ containers[ci].cls = log[Len(log)].cls
           /\ \E fi \in 1..Len(containers[ci].values) :
                  /\ ColName(containers[ci], fi, add_prefix) = log[Len(log)].col
                  /\ log[Len(log)].col \in ColNames(table)
                  /\ AssignAfterTransform(
                         table.columns[log[Len(log)].col],
                         ApplyColTransform(trs, log[Len(log)].col,
                                           containers[ci].values[fi])).exc = exc

\* C10: when a write raises while it fills the row of its table, the column
\* and the record type of the failing field are logged as an error, the
\* exception of the write is the one that the transform or the assignment of
\* that field raised, and no table has more rows than before the call.
C10_FailedAppendCommitsNoRow ==
    [][(WriteRaised /\ w_last'.name \in DOMAIN w_tables') =>
          /\ FailingFieldLogged(w_log', w_last'.input, h5file'[w_tables'[w_last'.name]],
                                TableEntry(w_transforms', w_last'.name), w_last'.exc)
          /\ \A node \in DOMAIN h5file' : RowCount(h5file', node) = RowCount(h5file, node)
          /\ written' = written]_vars

\* after one row was written, a write raised in a transform and the table
\* still has one row
C10_Witness ==
    /\ w_last.op = "write"
    /\ w_last.exc = "AttributeError"
    /\ w_calls = 2
    /\ w_last.name \in DOMAIN w_tables
    /\ RowCount(h5file, w_tables[w_last.name]) = 1
    /\ w_log # <<>>
    /\ w_log[Len(w_log)].msg = "Error writing col"

\* every generator that has started was given the arguments of g: the setup
\* of the table was made for these arguments
SetUpFor(g) ==
    \A j \in 1..Len(gens) : gens[j].pc = "created" \/ gens[j].args = g.args

\* the number of records of a log equal to rec
LogCount(log, rec) == Cardinality({k \in 1..Len(log) : log[k] = rec})

\* the fields of the j-th requested type of g that have no column in the
\* table and are not to be ignored
FieldsWithoutColumn(g, j) ==
    {f \in FieldNames(g.containers[j]) :
        /\ f \notin g.args.ignore_columns
        /\ WithPrefix(f, g.prefixes[j]) \notin ColNames(h5file[g.table_name])}

\* C11: when a table is read with types of which it lacks the column of a
\* field that is not in the ignore list, every record produced holds None for
\* that field, and holds nothing but fields of its type; the step that sets
\* the table up logs one "missing column" warning for the field per request
\* of the type, and the later steps log nothing.
C11_MissingFieldIsNone ==
    [][\A i \in 1..Len(gens) :
          (gens'[i] # gens[i] /\ gens'[i].pc \in {"running", "done"}
               /\ \A j \in 1..Len(gens') : gens'[j].pc = "created"
                                              \/ gens'[j].args = gens'[i].args) =>
             /\ \A k \in 1..Len(gens'[i].out) : \A j \in 1..Len(gens'[i].containers) :
                    /\ j <= Len(gens'[i].out[k].records)
                    /\ DOMAIN gens'[i].out[k].records[j].values
                           \subseteq FieldNames(gens'[i].containers[j])
                    /\ \A f \in FieldsWithoutColumn(gens'[i], j) :
                           /\ f \in DOMAIN gens'[i].out[k].records[j].values
                           /\ gens'[i].out[k].records[j].values[f] = PyNone
             /\ (gens[i].pc = "created" /\ gens[i].table_name \notin DOMAIN r_tables) =>
                    \A j \in 1..Len(gens'[i].containers) :
                        \A f \in FieldsWithoutColumn(gens'[i], j) :
                            LogCount(r_log', LogRec("warning", "missing column",
                                                    WithPrefix(f, gens'[i].prefixes[j]),
                                                    gens'[i].containers[j]))
                                = Cardinality({m \in 1..Len(gens'[i].containers) :
                                                  /\ gens'[i].containers[m] = gens'[i].containers[j]
                                                  /\ gens'[i].prefixes[m] = gens'[i].prefixes[j]})
             /\ gens[i].pc = "running" => r_log' = <<>>]_vars

\* a table written from records of type B was read to its end with type A:
\* two records, each with None for e and k and without the columns n and t
C11_Witness ==
    \E i \in 1..Len(gens) :
        /\ gens[i].pc = "done"
        /\ SetUpFor(gens[i])
        /\ gens[i].args = ReadArgs(OneType("A"), PrefixBool(FALSE), {})
        /\ Len(gens[i].out) = 2
        /\ ColNames(h5file[gens[i].table_name]) = {<<"x">>, <<"n">>, <<"t">>}
        /\ \A k \in 1..2 : /\ gens[i].out[k].records[1].values[<<"e">>] = PyNone
                            /\ gens[i].out[k].records[1].values[<<"k">>] = PyNone
                            /\ gens[i].out[k].records[1].values[<<"x">>] # PyNone

\* the reader has set the table of g up: its generator entered the loop
TableSetUp(g) == g.pc \in {"running", "done"}

\* the name of the attribute of column c with a suffix
AttrOf(c, suffix) == c \o suffix

\* column c of the table has none of the attributes that yield a transform
NoTransformAttr(tab, c) ==
    /\ AttrOf(c, S_UNIT) \notin DOMAIN tab.attrs
    /\ AttrOf(c, S_ENUM) \notin DOMAIN tab.attrs
    /\ AttrOf(c, S_TIME_SCALE) \notin DOMAIN tab.attrs
    /\ AttrOf(c, S_TRANSFORM_SCALE) \notin DOMAIN tab.attrs
    /\ ~(/\ AttrOf(c, S_TRANSFORM) \in DOMAIN tab.attrs
         /\ tab.attrs[AttrOf(c, S_TRANSFORM)] = AttrName("string")
         /\ AttrOf(c, S_MAXLEN) \in DOMAIN tab.attrs)

\* the transform of column c agrees with the attributes of c in the header
TransformAgreesWithHeader(trs, tab, c) ==
    /\ AttrOf(c, S_UNIT) \in DOMAIN tab.attrs =>
           /\ HasTransform(trs, c)
           /\ trs[c] = QuantityColumnTransform(tab.attrs[AttrOf(c, S_UNIT)].u)
    /\ AttrOf(c, S_ENUM) \in DOMAIN tab.attrs =>
           /\ HasTransform(trs, c)
           /\ trs[c] = EnumColumnTransform(tab.attrs[AttrOf(c, S_ENUM)].u)
    /\ AttrOf(c, S_TIME_SCALE) \in DOMAIN tab.attrs =>
           /\ HasTransform(trs, c)
           /\ trs[c] = TimeColumnTransform(
                           tab.attrs[AttrOf(c, S_TIME_SCALE)].u,
                           IF AttrOf(c, S_TIME_FORMAT) \in DOMAIN tab.attrs
                           THEN tab.attrs[AttrOf(c, S_TIME_FORMAT)].u ELSE "mjd")
    /\ AttrOf(c, S_TRANSFORM_SCALE) \in DOMAIN tab.attrs =>
           /\ HasTransform(trs, c)
           /\ trs[c].kind = "fixedpoint"
           /\ trs[c].n = tab.attrs[AttrOf(c, S_TRANSFORM_SCALE)].n
           /\ trs[c].o = IF AttrOf(c, S_TRANSFORM_OFFSET) \in DOMAIN tab.attrs
                         THEN tab.attrs[AttrOf(c, S_TRANSFORM_OFFSET)].n ELSE 0
           /\ trs[c].u = IF AttrOf(c, S_TRANSFORM_DTYPE) \in DOMAIN tab.attrs
                         THEN tab.attrs[AttrOf(c, S_TRANSFORM_DTYPE)].u ELSE "float32"
    /\ (/\ AttrOf(c, S_TRANSFORM) \in DOMAIN tab.attrs
        /\ tab.attrs[AttrOf(c, S_TRANSFORM)] = AttrName("string")
        /\ AttrOf(c, S_MAXLEN) \in DOMAIN tab.attrs) =>
           /\ HasTransform(trs, c)
           /\ trs[c] = StringTransform(tab.attrs[AttrOf(c, S_MAXLEN)].n)
    /\ NoTransformAttr(tab, c) => ~HasTransform(trs, c)

C12_WitnessNone ==
    \E i \in 1..Len(gens) :
        /\ TableSetUp(gens[i])
        /\ ColNames(h5file[gens[i].table_name]) = {<<"x">>, <<"n">>, <<"t">>}
        /\ NoTransformAttr(h5file[gens[i].table_name], <<"x">>)
        /\ r_transforms[gens[i].table_name][<<"n">>].kind = "string"
        /\ r_transforms[gens[i].table_name][<<"t">>].kind = "time"

\* the suffixes of the attribute naming convention
KnownSuffixes ==
    ALLOWED_SUFFIXES \cup {S_TRANSFORM_OFFSET, S_TRANSFORM_DTYPE, S_MAXLEN}

\* key without the prefix of a requested type; the key itself when the type
\* has no prefix
StripPrefix(key, prefix) ==
    IF prefix = <<>> THEN key ELSE DropFirst(key, Len(prefix) + 1)

\* key names a declared field of cls once the prefix and one known suffix are
\* stripped from it
NamesFieldOf(key, cls, prefix) ==
    /\ prefix # <<>> => StartsWith(key, prefix \o U_)
    /\ \E suffix \in KnownSuffixes :
           /\ EndsWith(StripPrefix(key, prefix), suffix)
           /\ DropLast(StripPrefix(key, prefix), Len(suffix)) \in FieldNames(cls)

\* C13: once a table is set up, a header attribute is in the metadata of a
\* requested type exactly when the attribute names a field of the type after
\* its prefix and one known suffix are stripped, or names a field of no
\* requested type that way.
C13_MetadataPartition ==
    \A i \in 1..Len(gens) :
        (TableSetUp(gens[i]) /\ SetUpFor(gens[i])) =>
            \A j \in 1..Len(gens[i].containers) :
                \A key \in DOMAIN h5file[gens[i].table_name].attrs :
                    key \in DOMAIN r_meta[gens[i].table_name][gens[i].containers[j]]
                        <=> \/ NamesFieldOf(key, gens[i].containers[j], gens[i].prefixes[j])
                            \/ \A m \in 1..Len(gens[i].containers) :
                                   ~NamesFieldOf(key, gens[i].containers[m],
                                                 gens[i].prefixes[m])

\* the field fi of the record ci of a write holds a quantity and is the first
\* field of the merge with its column name
FirstQuantityField(containers, ci, fi) ==
    /\ containers[ci].values[fi].k = "Quantity"
    /\ \A cj \in 1..ci : \A fj \in 1..Len(containers[cj].values) :
           (cj < ci \/ fj < fi) =>
               ColName(containers[cj], fj, add_prefix) # ColName(containers[ci], fi, add_prefix)

\* the unit of the policy: the one the field declares, that of the value when
\* it declares none
PolicyUnit(field, value) == IF field.unit = "" THEN value.u ELSE field.unit

\* the step is a write call that returned and created the table of its name
TableCreatedByWrite ==
    /\ SchemaRegistered
    /\ w_last'.exc = ""
    /\ w_last'.name \in DOMAIN w_tables'
    /\ w_tables'[w_last'.name] \notin DOMAIN h5file
    /\ w_tables'[w_last'.name] \in DOMAIN h5file'

\* the column col of the table at node converts to unit: its transform, its
\* _UNIT attribute and the number stored in the first row for the value
ColumnInUnit(trs, table, col, unit, value) ==
    /\ HasTransform(trs, col)
    /\ trs[col] = QuantityColumnTransform(unit)
    /\ AttrOf(col, S_UNIT) \in DOMAIN table.attrs
    /\ table.attrs[AttrOf(col, S_UNIT)] = AttrName(unit)
    /\ table.rows[1][col].n = ToValue(value, unit).v.n

\* the records that the generators have produced hold, for every field read
\* from a column with a _UNIT attribute, a quantity in that unit with the
\* stored number
ReadBackInUnit(gs, file) ==
    \A i \in 1..Len(gs) : \A k \in 1..Len(gs[i].out) :
        \A j \in 1..Len(gs[i].out[k].records) :
            \A f \in DOMAIN gs[i].out[k].records[j].values :
                (/\ gs[i].out[k].records[j].values[f] # PyNone
                 /\ AttrOf(WithPrefix(f, gs[i].prefixes[j]), S_UNIT)
                        \in DOMAIN file[gs[i].table_name].attrs) =>
                    /\ gs[i].out[k].records[j].values[f].k = "Quantity"
                    /\ gs[i].out[k].records[j].values[f].u
                           = file[gs[i].table_name].attrs[
                                 AttrOf(WithPrefix(f, gs[i].prefixes[j]), S_UNIT)].u
                    /\ gs[i].out[k].records[j].values[f].n
                           = file[gs[i].table_name].rows[k][
                                 WithPrefix(f, gs[i].prefixes[j])].n

\* C14: when the write that creates a table makes a column from a quantity,
\* the column's transform, its _UNIT attribute and the stored number are in
\* the unit that the field declares, whatever unit the value has, and in the
\* unit of the value when the field declares none; every record read from a
\* column with a _UNIT attribute holds a quantity in that unit.
C14_UnitPolicy ==
    [][/\ TableCreatedByWrite =>
              \A ci \in 1..Len(w_last'.input) : \A fi \in 1..Len(w_last'.input[ci].values) :
                  (/\ FirstQuantityField(w_last'.input, ci, fi)
                   /\ ColName(w_last'.input[ci], fi, add_prefix)
                          \in DOMAIN w_schemas'[w_last'.name]) =>
                      ColumnInUnit(TableEntry(w_transforms', w_last'.name),
                                   h5file'[w_tables'[w_last'.name]],
                                   ColName(w_last'.input[ci], fi, add_prefix),
                                   PolicyUnit(ContainerFields(w_last'.input[ci].cls)[fi],
                                              w_last'.input[ci].values[fi]),
                                   w_last'.input[ci].values[fi])
       /\ ReadBackInUnit(gens', h5file')]_vars

\* a table was created from a record whose e, declared in GeV, was 1 TeV, and
\* read back: the header says GeV and the record holds 1000 GeV
C14_Witness ==
    \E i \in 1..Len(gens) :
        /\ Len(gens[i].out) >= 1
        /\ gens[i].containers = <<"A">>
        /\ gens[i].table_name \in DOMAIN written
        /\ written[gens[i].table_name][1] = <<A1>>
        /\ A1.values[2] = Quantity(1, "TeV")
        /\ AttrOf(<<"e">>, S_UNIT) \in DOMAIN h5file[gens[i].table_name].attrs
        /\ h5file[gens[i].table_name].attrs[AttrOf(<<"e">>, S_UNIT)] = AttrName("GeV")
        /\ gens[i].out[1].records[1].values[<<"e">>] = Quantity(1000, "GeV")

\* a table was created from a record whose x, of no declared unit, was 2 TeV,
\* and read back: the header says TeV and the record holds 2 TeV
C14_WitnessUndeclared ==
    \E i \in 1..Len(gens) :
        /\ Len(gens[i].out) >= 1
        /\ gens[i].containers = <<"B">>
        /\ <<"x">> \notin gens[i].args.ignore_columns
        /\ gens[i].table_name \in DOMAIN written
        /\ written[gens[i].table_name][1] = <<B1>>
        /\ B1.values[1] = Quantity(2, "TeV")
        /\ AttrOf(<<"x">>, S_UNIT) \in DOMAIN h5file[gens[i].table_name].attrs
        /\ h5file[gens[i].table_name].attrs[AttrOf(<<"x">>, S_UNIT)] = AttrName("TeV")
        /\ gens[i].out[1].records[1].values[<<"x">>] = Quantity(2, "TeV")

WriteToPersistedTable ==
    /\ SchemaRegistered
    /\ w_opens > 1
    /\ w_last'.exc = ""
    /\ w_last'.name \in DOMAIN w_tables'
    /\ w_tables'[w_last'.name] \in DOMAIN h5file

\* the quantities of the records are stored in the row in the units of the
\* header of the table
StoredInHeaderUnit(table, row, containers) ==
    \A ci \in 1..Len(containers) : \A fi \in 1..Len(containers[ci].values) :
        (/\ FirstQuantityField(containers, ci, fi)
         /\ AttrOf(ColName(containers[ci], fi, add_prefix), S_UNIT) \in DOMAIN table.attrs
         /\ ToValue(containers[ci].values[fi],
                    table.attrs[AttrOf(ColName(containers[ci], fi, add_prefix), S_UNIT)].u).exc
                = "") =>
            row[ColName(containers[ci], fi, add_prefix)].n
                = ToValue(containers[ci].values[fi],
                          table.attrs[AttrOf(ColName(containers[ci], fi, add_prefix),
                                             S_UNIT)].u).v.n

\* C16: when a writer that reopened the file sets up a name whose table is in
\* the file, the schema of the name has the columns of the table, the
\* transforms of the name are those that the header of the table determines,
\* and the quantities of the row it appends are stored in the units of the
\* header.
C16_ReopenedWriterUsesHeader ==
    [][WriteToPersistedTable =>
          /\ DOMAIN w_schemas'[w_last'.name] = ColNames(h5file[w_tables'[w_last'.name]])
          /\ \A c \in ColNames(h5file[w_tables'[w_last'.name]]) :
                 TransformAgreesWithHeader(TableEntry(w_transforms', w_last'.name),
                                           h5file[w_tables'[w_last'.name]], c)
          /\ StoredInHeaderUnit(
                 h5file[w_tables'[w_last'.name]],
                 h5file'[w_tables'[w_last'.name]].rows[
                     Len(h5file'[w_tables'[w_last'.name]].rows)],
                 w_last'.input)]_vars

\* the step is a write call that created the table of its name, whether or
\* not it went on to append the row
TableCreatedInWrite ==
    /\ SchemaRegistered
    /\ w_last'.name \in DOMAIN w_tables'
    /\ w_tables'[w_last'.name] \notin DOMAIN h5file
    /\ w_tables'[w_last'.name] \in DOMAIN h5file'

\* the header of the table holds the metadata entries of the records
MetaInHeader(table, containers) ==
    \A ci \in 1..Len(containers) : \A key \in DOMAIN containers[ci].meta :
        (\A cj \in 1..Len(containers) : cj # ci => key \notin DOMAIN containers[cj].meta) =>
            /\ key \in DOMAIN table.attrs
            /\ table.attrs[key] = containers[ci].meta[key]

\* the metadata of every record that the generators have produced holds the
\* header attributes that name no field of a requested type
SharedMetaInRecords(gs, file) ==
    \A i \in {n \in 1..Len(gs) : gs[n].table_name \in DOMAIN file} :
        \A key \in DOMAIN file[gs[i].table_name].attrs :
        (\A m \in 1..Len(gs[i].containers) :
             ~NamesFieldOf(key, gs[i].containers[m], gs[i].prefixes[m])) =>
            \A k \in 1..Len(gs[i].out) : \A j \in 1..Len(gs[i].out[k].records) :
                /\ key \in DOMAIN gs[i].out[k].records[j].meta
                /\ gs[i].out[k].records[j].meta[key] = file[gs[i].table_name].attrs[key]

\* C17: the write that creates a table puts every metadata entry of its
\* records into the header of the table, and the metadata of every record
\* that read produces, of every requested type, holds every header attribute
\* that names no field of a requested type, with the value of the header.
C17_FreeFormMetaRestored ==
    [][/\ TableCreatedInWrite =>
              MetaInHeader(h5file'[w_tables'[w_last'.name]], w_last'.input)
       /\ SharedMetaInRecords(gens', h5file')]_vars

\* a table created from a record of type B and one of type A with the entry
\* run = 5 was read with the types A and B: both records of a row hold run = 5
C17_Witness ==
    \E i \in 1..Len(gens) :
        /\ gens[i].containers = <<"A", "B">>
        /\ Len(gens[i].out) >= 1
        /\ gens[i].table_name \in DOMAIN written
        /\ written[gens[i].table_name][1] = <<B1, A2>>
        /\ A2.meta = (<<"r", "u", "n">> :> PyInt(5))
        /\ \A j \in 1..2 :
               /\ <<"r", "u", "n">> \in DOMAIN gens[i].out[1].records[j].meta
               /\ gens[i].out[1].records[j].meta[<<"r", "u", "n">>] = PyInt(5)

\* two calls of read with the same table and the same arguments
SameRead(g, h) == g.table_name = h.table_name /\ g.args = h.args

\* every generator whose call was repeated by another, and that has yielded,
\* has yielded the items of the rows from row 0 on in the order of the rows,
\* all of them once it has ended, and the other one has not raised
SequencesFromRowZero ==
    \A i \in 1..Len(gens) : \A j \in 1..Len(gens) :
        (i # j /\ SameRead(gens[i], gens[j]) /\ gens[i].pc \in {"running", "done"}) =>
            /\ YieldedInRowOrder(gens[i])
            /\ gens[i].pc = "done" =>
                   Len(gens[i].out) = Len(h5file[r_tables[gens[i].table_name]].rows)
            /\ gens[j].pc # "raised"

\* C18: a step of one generator leaves every other generator of the reader as
\* it is, and two generators that read returned for the same table and
\* arguments each yield the rows from row 0 on, in ascending order, up to the
\* last one, however their steps interleave.
C18_IndependentSequences ==
    [][/\ \A i \in 1..Len(gens) : \A j \in 1..Len(gens) :
              (i # j /\ gens'[i] # gens[i]) => gens'[j] = gens[j]
       /\ SequencesFromRowZero']_vars

\* of two generators for the same table and arguments, the second has ended
\* after the items of two rows while the first, started before it, is still
\* at its first row
C18_Witness ==
    /\ Len(gens) = 2
    /\ SameRead(gens[1], gens[2])
    /\ gens[1].pc = "running"
    /\ Len(gens[1].out) = 1
    /\ gens[2].pc = "done"
    /\ Len(gens[2].out) = 2
    /\ gens[2].out[1] = gens[1].out[1]
    /\ gens[2].out[2] # gens[2].out[1]

\* the value of the field of a record whose column name is col
ValueNamed(container, col) ==
    container.values[CHOOSE f \in 1..Len(container.values) :
                         ColName(container, f, add_prefix) = col]

\* what the column col of the table stores for the value v alone
StoredAlone(table, trs, col, v) ==
    RowAssign(table.columns[col], ApplyColTransform(trs, col, v).v).v

\* C19: when the write that builds the schema of a name merges two records
\* that both have a field of column name x, of which the first record's made
\* the column, and returns, the row it appends stores in x the value of the
\* first record's field: the duplicate of the second record, dropped from the
\* schema, gives the row nothing.
C19_DroppedFieldGivesNoValue ==
    [][(SchemaRegistered /\ WriteReturned /\ Len(w_last'.input) = 2) =>
          \A x \in RecordColNames(w_last'.input[1]) \cap RecordColNames(w_last'.input[2]) :
              x \in DOMAIN CreateHdf5TableSchema(w_last'.name, <<w_last'.input[1]>>).columns =>
                  h5file'[w_tables'[w_last'.name]].rows[
                      Len(h5file'[w_tables'[w_last'.name]].rows)][x]
                      = StoredAlone(h5file'[w_tables'[w_last'.name]],
                                    TableEntry(w_transforms', w_last'.name), x,
                                    ValueNamed(w_last'.input[1], x))]_vars

\* a field named c1 comes before a field named c2 in the merge of the records
MergedBefore(containers, c1, c2) ==
    \E k1 \in 1..Len(MergedColNames(containers)) :
        \E k2 \in (k1 + 1)..Len(MergedColNames(containers)) :
            MergedColNames(containers)[k1] = c1 /\ MergedColNames(containers)[k2] = c2

\* C20: every column of a schema that a write builds, whatever its storage
\* kind, has an explicit position; the positions of two columns differ, and
\* the column of the smaller position is that of a field that comes first in
\* the merge of the records.
C20_EveryColumnHasPosition ==
    [][SchemaRegistered =>
          \A c1 \in DOMAIN w_schemas'[w_last'.name] :
              /\ w_schemas'[w_last'.name][c1].pos # NoPos
              /\ \A c2 \in DOMAIN w_schemas'[w_last'.name] \ {c1} :
                     /\ w_schemas'[w_last'.name][c1].pos # w_schemas'[w_last'.name][c2].pos
                     /\ w_schemas'[w_last'.name][c1].pos < w_schemas'[w_last'.name][c2].pos
                            => MergedBefore(w_last'.input, c1, c2)]_vars

\* the number of calls of add_column_transform that the build made for column c
AutoRegistrations(b, c) == Cardinality({k \in 1..Len(b.reg) : b.reg[k].col = c})

\* the automatic transform that the kind of a value calls for, in the order
\* enumeration, quantity, array, time, number, text
ExpectedAuto(v) ==
    CASE v.k = "Enum" -> "enum"
      [] v.k = "Quantity" -> "quantity"
      [] v.k = "ndarray" -> "none"
      [] v.k = "Time" -> "time"
      [] IsNumber(v) -> "none"
      [] v.k = "str" -> "string"
      [] OTHER -> "unsupported"

\* one field of the records has the column name c
NamedOnce(containers, c) ==
    Cardinality({k \in 1..Len(MergedColNames(containers)) : MergedColNames(containers)[k] = c}) = 1

\* the value of the field named c, after the transform that the caller
\* registered for c
AfterUserTransform(trs, containers, c) ==
    ApplyColTransform(trs, c, CHOOSE v \in ValuesOf(containers, c) : TRUE).v

\* the kind of the transform of column c, "none" when it has none
KindOf(trs, c) == IF HasTransform(trs, c) THEN trs[c].kind ELSE "none"

\* the automatic transforms of column c in the build b of a write of
\* containers, trs being the transforms before the build and after the
\* transforms after it
OneAutomaticTransform(b, c, containers, trs, after, made) ==
    /\ AutoRegistrations(b, c) <= 1
    /\ (made /\ NamedOnce(containers, c)) =>
           IF ExpectedAuto(AfterUserTransform(trs, containers, c)) = "none"
           THEN /\ AutoRegistrations(b, c) = 0
                /\ EntryOrNone(after, c) = EntryOrNone(trs, c)
           ELSE /\ AutoRegistrations(b, c) = 1
                /\ KindOf(after, c) = ExpectedAuto(AfterUserTransform(trs, containers, c))

\* C21: in the schema build of a write, at most one automatic transform is
\* registered for a column; for a column made from the one field of its
\* name, it is the one that the kind of the value calls for once the
\* caller's transform is applied (enum, quantity, time or string transform,
\* none for an array or a number), and when none is called for the column
\* keeps the transform it had before the build.
C21_AtMostOneAutomaticTransform ==
    [][(WriteCalled /\ w_last'.name \notin DOMAIN w_schemas) =>
          LET b == CreateHdf5TableSchema(w_last'.name, w_last'.input)
          IN  \A c \in Range(MergedColNames(w_last'.input)) :
                  OneAutomaticTransform(
                      b, c, w_last'.input, TableEntry(w_transforms, w_last'.name),
                      TableEntry(w_transforms', w_last'.name),
                      /\ w_last'.name \in DOMAIN w_schemas'
                      /\ c \in DOMAIN w_schemas'[w_last'.name])]_vars

\* a first write built a schema under the caller's fixed-point transform of
\* x: x, a number once packed, has the caller's transform and no automatic
\* one, e has the quantity transform and k, an enum member, the enum
\* transform alone
C21_Witness ==
    /\ w_last.op = "write"
    /\ w_last.exc = ""
    /\ w_calls = 1
    /\ w_last.input = <<A1>>
    /\ w_last.name \in DOMAIN w_schemas
    /\ DOMAIN w_schemas[w_last.name] = {<<"x">>, <<"e">>, <<"k">>}
    /\ w_last.name \in DOMAIN w_transforms
    /\ DOMAIN w_transforms[w_last.name] = {<<"x">>, <<"e">>, <<"k">>}
    /\ w_transforms[w_last.name][<<"x">>] = UserFixedPoint
    /\ w_transforms[w_last.name][<<"e">>].kind = "quantity"
    /\ w_transforms[w_last.name][<<"k">>].kind = "enum"

\* the step is a write call that sets up a name whose table path is in the
\* file
WriteToExistingPath ==
    /\ WriteCalled
    /\ w_last'.name \notin DOMAIN w_schemas
    /\ JoinPath(WriterGroup, w_last'.name) \in DOMAIN h5file

\* the rows of the table after the call are those before it and one more
OneRowMore(before, after) ==
    /\ Len(after.rows) = Len(before.rows) + 1
    /\ SubSeq(after.rows, 1, Len(before.rows)) = before.rows

\* C22: a write that sets up a name whose table path is already in the file
\* creates no table and leaves the columns, the header attributes and the
\* title of every table as they are; the rows of the existing tables are
\* kept; when the write returns, the name is bound to the existing table and
\* exactly one row is appended to it, and when it raises no table gets a row.
C22_ExistingTableReused ==
    [][WriteToExistingPath =>
          /\ DOMAIN h5file' = DOMAIN h5file
          /\ \A node \in DOMAIN h5file :
                 /\ TableHeader(h5file'[node]) = TableHeader(h5file[node])
                 /\ IF w_last'.exc = "" /\ node = JoinPath(WriterGroup, w_last'.name)
                    THEN OneRowMore(h5file[node], h5file'[node])
                    ELSE h5file'[node].rows = h5file[node].rows
          /\ w_last'.exc = "" =>
                 /\ w_last'.name \in DOMAIN w_tables'
                 /\ w_tables'[w_last'.name] = JoinPath(WriterGroup, w_last'.name)]_vars

\* a writer that reopened the file wrote a record of type B to the table
\* that the writer before it had made from a record of type A: the table
\* keeps the columns of A and has two rows
C22_Witness ==
    /\ w_opens = 2
    /\ w_last.op = "write"
    /\ w_last.exc = ""
    /\ w_last.name = T_PLAIN
    /\ Len(w_last.input) = 1
    /\ w_last.input[1].cls = "B"
    /\ JoinPath(WriterGroup, T_PLAIN) \in DOMAIN h5file
    /\ ColNames(h5file[JoinPath(WriterGroup, T_PLAIN)]) = {<<"x">>, <<"e">>, <<"k">>}
    /\ Len(h5file[JoinPath(WriterGroup, T_PLAIN)].rows) = 2
    /\ DOMAIN w_schemas[T_PLAIN] = {<<"x">>, <<"n">>, <<"t">>}

\* what the reader holds for a table name: the column mapping, the missing
\* fields, the metadata partition and the transforms
CachedSetup(tables, cols, missing, meta, trs, name) ==
    [table |-> EntryOrNone(tables, name), cols |-> EntryOrNone(cols, name),
     missing |-> EntryOrNone(missing, name), meta |-> EntryOrNone(meta, name),
     tr |-> TableEntry(trs, name)]

\* the step is the first next() of the i-th generator, whose arguments pass
\* the checks of read
BodyStarted(i) ==
    /\ i \in 1..Len(gens)
    /\ gens[i].pc = "created"
    /\ gens'[i].pc # "created"
    /\ ReadChecks(gens[i]).exc = ""

\* C23: the reader holds nothing for any table name when it is constructed;
\* what it holds for a name is set in one step only, the first start of the
\* body of a read of a name it does not know, after which it knows the name
\* whenever the table is in the file; every other step, a call of read, a
\* later read of the name with whatever arguments, or a later row, leaves
\* what the reader holds for the name as it is.
C23_SetupOncePerName ==
    [][/\ (r_open' /\ ~r_open) =>
              /\ r_tables' = NoEntries /\ r_cols_to_read' = NoEntries
              /\ r_missing_cols' = NoEntries /\ r_meta' = NoEntries
              /\ r_transforms' = NoEntries
       /\ \A name \in ReadTableNames :
              /\ CachedSetup(r_tables', r_cols_to_read', r_missing_cols', r_meta',
                             r_transforms', name)
                     # CachedSetup(r_tables, r_cols_to_read, r_missing_cols, r_meta,
                                   r_transforms, name) =>
                     /\ name \notin DOMAIN r_tables
                     /\ name \in DOMAIN r_tables'
                     /\ \E i \in 1..Len(gens) : BodyStarted(i) /\ gens[i].table_name = name
              /\ \A i \in 1..Len(gens) :
                     (BodyStarted(i) /\ gens[i].table_name = name /\ name \in DOMAIN h5file) =>
                         name \in DOMAIN r_tables']_vars

\* the second read of a table started after the first one had set the table
\* up for other arguments, and the reader holds the column mapping and the
\* metadata of the types of the first read
C23_Witness ==
    /\ Len(gens) = 2
    /\ gens[1].pc \in {"running", "done"}
    /\ gens[2].pc # "created"
    /\ r_last.gen = 2
    /\ gens[1].table_name = gens[2].table_name
    /\ gens[1].args # gens[2].args
    /\ gens[1].table_name \in DOMAIN r_meta
    /\ DOMAIN r_meta[gens[1].table_name] = Range(gens[1].containers)
    /\ Len(r_missing_cols[gens[1].table_name]) = Len(gens[1].containers)

\* the write failed for lack of a table handle: the name has a schema, so
\* the setup was skipped, and _append_row found no table for it
NoHandleForName ==
    /\ WriteCalled
    /\ w_last'.name \in DOMAIN w_schemas
    /\ w_last'.name \notin DOMAIN w_tables
    /\ w_last'.exc = "KeyError"

\* C24: after every writer call, the calls that raised included, every table
\* name that has a schema has a table handle, and no write fails for lack of
\* a table handle.
C24_SchemaImpliesHandle ==
    [][/\ DOMAIN w_schemas' \subseteq DOMAIN w_tables'
       /\ ~NoHandleForName]_vars

\* a reader that holds nothing yet
FreshReaderState ==
    [tables |-> NoEntries, cols |-> NoEntries, missing |-> NoEntries, meta |-> NoEntries,
     tr |-> NoEntries, log |-> <<>>, exc |-> ""]

\* what the setup of the table determines for the arguments of g
SetupFromArgs(g) ==
    SetupTable(FreshReaderState, g.table_name, g.containers, g.prefixes, g.args.ignore_columns)

\* the generator g entered its loop with the mapping, the missing fields and
\* the metadata that e, the setup for its own arguments, determines
UsesOwnSetup(g, e, cols, meta) ==
    e.exc = "" =>
        /\ g.pc \in {"running", "done"}
        /\ g.missing = e.missing[g.table_name]
        /\ EntryOrNone(cols, g.table_name) = e.cols[g.table_name]
        /\ EntryOrNone(meta, g.table_name) = e.meta[g.table_name]

\* C25: when the body of a read starts, the first of its table name or a
\* later one, the column mapping, the missing fields of each type and the
\* metadata of each type that the read works with are those that the setup
\* determines for the arguments of this read.
C25_SecondReadUsesOwnArguments ==
    [][\A i \in 1..Len(gens) :
          (BodyStarted(i) /\ gens[i].table_name \in DOMAIN h5file) =>
              UsesOwnSetup(gens'[i], SetupFromArgs(ReadChecks(gens[i])), r_cols_to_read',
                           r_meta')]_vars

\* the transforms that the header of the table of g yields are complete: the
\* mapping of the attributes ends without an error
HeaderMapsCompletely(g) ==
    MapTransformsFromTableHeader(FreshReaderState, g.table_name, h5file[g.table_name]).exc = ""

\* C26: when the body of a read of a name that the reader does not know
\* raises, the reader does not know the name afterwards, so that the next
\* read sets the table up again; and no generator yields a record of a table
\* whose header does not map to a complete set of transforms.
C26_FailedSetupLeavesNoTrace ==
    [][\A i \in 1..Len(gens) :
          /\ (BodyStarted(i) /\ gens'[i].pc = "raised"
                  /\ gens[i].table_name \notin DOMAIN r_tables) =>
                 gens[i].table_name \notin DOMAIN r_tables'
          /\ (gens'[i].out # <<>> /\ gens[i].table_name \in DOMAIN h5file) =>
                 HeaderMapsCompletely(gens[i])]_vars

\* the header attributes of the table hold what the schema build b generated
\* and, for every column with a quantity transform, the unit of the transform
HeaderHoldsGenerated(table, b, trs) ==
    /\ \A key \in DOMAIN b.meta :
           key \in DOMAIN table.attrs /\ table.attrs[key] = b.meta[key]
    /\ \A c \in ColNames(table) :
           KindOf(trs, c) = "quantity" =>
               /\ AttrOf(c, S_UNIT) \in DOMAIN table.attrs
               /\ table.attrs[AttrOf(c, S_UNIT)] = AttrName(trs[c].u)

\* C27: the header of a table that a write creates holds every attribute
\* that the schema build generated (unit, enum, time scale and format,
\* transform parameters, description, version) with the generated value, and
\* the unit attribute of a column is the unit of the transform that the
\* writer applies to the column, whatever the metadata of the records hold.
C27_GeneratedAttributesKept ==
    [][TableCreatedInWrite =>
          HeaderHoldsGenerated(h5file'[w_tables'[w_last'.name]],
                               CreateHdf5TableSchema(w_last'.name, w_last'.input),
                               TableEntry(w_transforms', w_last'.name))]_vars

\* C28: the tables of two distinct names of one writer are two distinct
\* tables of the file, and no write to a name fails because the table that
\* it is to create is there under another name.
C28_DistinctNamesDistinctTables ==
    [][/\ \A n1 \in DOMAIN w_tables' : \A n2 \in DOMAIN w_tables' \ {n1} :
              w_tables'[n1] # w_tables'[n2]
       /\ WriteCalled => w_last'.exc # "NodeError"]_vars

\* C29: when a caller changes the metadata of one record that read produced,
\* the metadata of every other record produced before stays as it was, and
\* a record produced afterwards holds attributes of the table header only.
C29_RecordMetaNotShared ==
    [][/\ r_last'.op = "set_meta" =>
              \A a \in 1..Len(gens) : \A b \in 1..Len(gens[a].out) :
                  \A c \in 1..Len(gens[a].out[b].records) :
                      <<a, b, c>> # <<r_last'.gen, r_last'.item, r_last'.rec>> =>
                          gens'[a].out[b].records[c].meta = gens[a].out[b].records[c].meta
       /\ r_last'.op = "next" =>
              \A a \in 1..Len(gens) : \A b \in (Len(gens[a].out) + 1)..Len(gens'[a].out) :
                  \A c \in 1..Len(gens'[a].out[b].records) :
                      /\ gens'[a].table_name \in DOMAIN h5file
                      /\ DOMAIN gens'[a].out[b].records[c].meta
                             \subseteq DOMAIN h5file[gens'[a].table_name].attrs]_vars

\* C30: in the table that aggregate_table returns, a row of telescope events
\* that fails the quality query is not valid for any configured image
\* parameter, those of prefix "morphology" included, and the aggregated max,
\* min, mean and std of every parameter are those of the rows that pass the
\* quality query and hold a value.
C30_FailedRowsExcluded ==
    (agg_table.called /\ agg_table.exc = "") =>
        \A k \in 1..Len(aggregator.image_parameters) :
            /\ \A i \in 1..Len(mono_parameters) :
                   ~GetTableMask(aggregator.quality_criteria, mono_parameters)[i] =>
                       ~Valid(aggregator.image_parameters[k][1], mono_parameters,
                              ColumnName(aggregator.image_parameters[k][1],
                                         aggregator.image_parameters[k][2]),
                              GetTableMask(aggregator.quality_criteria, mono_parameters))[i]
            /\ agg_table.cols[ColumnName(aggregator.image_parameters[k][1],
                                         aggregator.image_parameters[k][2])]
                   = AggregatedColumns(
                         mono_parameters,
                         ColumnName(aggregator.image_parameters[k][1],
                                    aggregator.image_parameters[k][2]),
                         ValidWithinCuts(aggregator.image_parameters[k][1], mono_parameters,
                                         ColumnName(aggregator.image_parameters[k][1],
                                                    aggregator.image_parameters[k][2]),
                                         GetTableMask(aggregator.quality_criteria,
                                                      mono_parameters)),
                         Cardinality(EventIdsOf(mono_parameters)),
                         TelToArrayIndices(mono_parameters))

====
